---------------------------- MODULE Spec2Model ----------------------------
(***************************************************************************)
(* A model of the Voice Chef back end (FastAPI + SQLAlchemy).  The state   *)
(* is the relational tables, the two file directories, the tasks that run  *)
(* after a response, the clock and the bearer tokens clients hold.  Every  *)
(* request handler is one atomic action: dependency resolution             *)
(* (get_current_user / get_current_admin_user), the handler body, the      *)
(* commit and the response.                                                *)
(***************************************************************************)
EXTENDS Integers, Sequences, FiniteSets, TLC

(***************************************************************************)
(* Bounds of the model (not program constants).                            *)
(***************************************************************************)
MaxLoginTime == 1
MaxTokens == 2
MaxNewUsers == 2
MaxOtherDishes == 1
MaxActivities == 1
MaxPhotoFiles == 1
MaxIdListLen == 2
MaxTypedNames == 2
MaxDaysBack == 7
MaxSessionEvents == 2
MaxStrLen == 2
MaxPage == 4
MaxRetries == 3
MaxWrites == 2
MaxIngredients == 3
MaxCacheSizeMb == 4
MaxCacheSteps == 3
MaxWorkers == 2

(***************************************************************************)
(* Program constants.                                                      *)
(***************************************************************************)
FREE_MAX_DISHES == 15
PREMIUM_MAX_DISHES == 45
FREE_MAX_RECIPES_PER_DISH == 3
PREMIUM_MAX_RECIPES_PER_DISH == 5
LOGIN_EXPIRES_IN == 86400
DEFAULT_EXPIRE_MINUTES == 1440
SECONDS_PER_MINUTE == 60
SECONDS_PER_DAY == 86400
STREAK_DAYS == 7
MAX_PAGE_SIZE == 100
PASSWORD_MIN_LENGTH == 8
PASSWORD_MAX_LENGTH == 128

NOTES_MAX_LENGTH == 1000
MAX_RECOMMENDATIONS == 20

\* A column that holds NULL / a Python None where a number is expected.
None == 0 - 1

(***************************************************************************)
(* Strings are sequences of one-character strings, so that str.strip and   *)
(* str.lower are computed rather than assumed.                             *)
(***************************************************************************)
UpperToLower ==
  [c \in {"A", "B", "X", "I", "O"} |->
     CASE c = "A" -> "a" [] c = "B" -> "b" [] c = "X" -> "x"
       [] c = "I" -> "i" [] c = "O" -> "o"]

IsSpace(c) == c = " "

IsUpper(c) == c \in DOMAIN UpperToLower

IsLetter(c) == IsUpper(c) \/ c \in {"a", "b", "x", "i", "o"}

IsDigit(c) == c \in {"0", "1", "2", "3", "4", "5", "6", "7", "8", "9"}

\* str.lower()
Lower(s) == [i \in DOMAIN s |-> IF IsUpper(s[i]) THEN UpperToLower[s[i]] ELSE s[i]]

RECURSIVE LStrip(_)
LStrip(s) == IF s # <<>> /\ IsSpace(Head(s)) THEN LStrip(Tail(s)) ELSE s

RECURSIVE RStrip(_)
RStrip(s) ==
  IF s # <<>> /\ IsSpace(s[Len(s)]) THEN RStrip(SubSeq(s, 1, Len(s) - 1)) ELSE s

\* str.strip()
Strip(s) == RStrip(LStrip(s))

\* The position of the last "@" of s, 0 when there is none.
AtPos(s) ==
  LET at == {i \in DOMAIN s : s[i] = "@"}
  IN IF at = {} THEN 0 ELSE CHOOSE i \in at : \A j \in at : j <= i

\* str(n) for 0 <= n <= 99, and int(s): the value, or None for a ValueError.
DigitOf == <<"0", "1", "2", "3", "4", "5", "6", "7", "8", "9">>

IntToStr(n) ==
  IF n < 10 THEN <<DigitOf[n + 1]>>
  ELSE <<DigitOf[(n \div 10) + 1], DigitOf[(n % 10) + 1]>>

DigitValue(c) == (CHOOSE i \in DOMAIN DigitOf : DigitOf[i] = c) - 1

RECURSIVE StrToIntAcc(_, _)
StrToIntAcc(s, acc) ==
  IF s = <<>> THEN acc ELSE StrToIntAcc(Tail(s), 10 * acc + DigitValue(Head(s)))

StrToInt(s) ==
  IF s # <<>> /\ \A i \in DOMAIN s : IsDigit(s[i]) THEN StrToIntAcc(s, 0) ELSE None

VARIABLES
  settings,            \* the Settings object, built once at start
  now,                 \* the UTC clock, whole seconds
  users,               \* table users: a sequence, id = index
  dishes,              \* table dishes: a sequence, id = index
  recipes,             \* table recipes: a set of rows
  recipe_steps,        \* table recipe_steps: a set of rows
  recipe_ingredients,  \* table recipe_ingredients: a set of rows
  ingredients,         \* table ingredients: a sequence, id = index
  cooking_sessions,    \* table cooking_sessions: a set of rows
  user_activities,     \* table user_activities: a sequence, id = index
  id_seq,              \* the serial counters of the tables rows are deleted from
  photo_files,         \* the files under uploads/photos
  tts_files,           \* the files under cache/tts
  background_tasks,    \* the tasks added to BackgroundTasks and not yet run
  tokens,              \* tokens issued so far: the token, the claims asked for, the login
  db_faults,           \* whether the connection to the database may fail in a request
  cache_manager,       \* the TTSCacheManager object and the .mp3 files of its directory
  in_flight,           \* the requests and syntheses that have begun and not ended
  resp                 \* the last response sent

dbVars == <<users, dishes, recipes, recipe_steps, recipe_ingredients, ingredients,
            cooking_sessions, user_activities, id_seq>>
fileVars == <<photo_files, tts_files, background_tasks>>
envVars == <<settings, now, tokens, db_faults, cache_manager, in_flight>>
vars == <<dbVars, fileVars, envVars, resp>>

\* No TTSCacheManager has been constructed: the routers use none.
NoCacheManager == [kind |-> "none"]

(***************************************************************************)
(* Responses.  An error response is what FastAPI makes of an HTTPException:*)
(* a status, a detail and the exception's headers.                         *)
(***************************************************************************)
NoHeaders == {}

BearerChallenge == {<<"WWW-Authenticate", "Bearer">>}

NoData == [kind |-> "none"]

HTTPException(status, detail, headers) ==
  [status |-> status, detail |-> detail, headers |-> headers, data |-> NoData]

Success(status, data) ==
  [status |-> status, detail |-> "", headers |-> NoHeaders, data |-> data]

\* The response r to the request `op` made with the inputs `args`.
Answer(op, args, r) ==
  [op |-> op, args |-> args, status |-> r.status, detail |-> r.detail,
   headers |-> r.headers, data |-> r.data]

NoArgs == [none |-> TRUE]

(***************************************************************************)
(* app/auth/jwt.py.  A signed token is the payload together with the key   *)
(* and the algorithm that signed it; the codec (python-jose) rejects a     *)
(* token whose signature was not made by the given key and algorithm and   *)
(* one whose exp lies before the current second (exp < now).  Payloads are *)
(* functions from claim names to values.                                   *)
(***************************************************************************)
jwt_encode(payload, key, algorithm) ==
  [payload |-> payload, key |-> key, alg |-> algorithm]

\* jose.jwt.decode: the payload, or a JWTError.
jwt_decode(token, key, algorithms) ==
  IF token.key # key \/ token.alg \notin algorithms
  THEN [ok |-> FALSE, payload |-> <<>>]
  ELSE IF "exp" \in DOMAIN token.payload /\ token.payload["exp"] < now
  THEN [ok |-> FALSE, payload |-> <<>>]
  ELSE [ok |-> TRUE, payload |-> token.payload]

\* dict.update: the entries of `extra` replace those of `data`.
DictUpdate(data, extra) ==
  [k \in DOMAIN data \cup DOMAIN extra |->
     IF k \in DOMAIN extra THEN extra[k] ELSE data[k]]

\* expires_delta is a number of seconds, or None for "not given".
create_access_token(data, expires_delta) ==
  LET expire ==
        IF expires_delta # None /\ expires_delta # 0
        THEN now + expires_delta
        ELSE now + SECONDS_PER_MINUTE * settings.JWT_ACCESS_TOKEN_EXPIRE_MINUTES
      to_encode ==
        DictUpdate(data, [exp |-> expire, iat |-> now, type |-> "access"])
  IN jwt_encode(to_encode, settings.JWT_SECRET_KEY, settings.JWT_ALGORITHM)

\* decode_access_token without its check of the type claim.
decode_access_token_untyped(token) ==
  LET decoded == jwt_decode(token, settings.JWT_SECRET_KEY, {settings.JWT_ALGORITHM})
  IN IF ~decoded.ok
     THEN [status |-> 401, detail |-> "Invalid token", payload |-> <<>>]
     ELSE [status |-> 200, detail |-> "", payload |-> decoded.payload]

decode_access_token(token) ==
  LET decoded == jwt_decode(token, settings.JWT_SECRET_KEY, {settings.JWT_ALGORITHM})
      type == IF "type" \in DOMAIN decoded.payload THEN decoded.payload["type"] ELSE ""
  IN IF ~decoded.ok
     THEN [status |-> 401, detail |-> "Invalid token", payload |-> <<>>]
     ELSE IF type # "access"
     THEN [status |-> 401, detail |-> "Invalid token type", payload |-> <<>>]
     ELSE [status |-> 200, detail |-> "", payload |-> decoded.payload]

(***************************************************************************)
(* app/dependencies/auth.py.  `bearer` is the Authorization header: the    *)
(* empty sequence when the request carries none, else <<token>>.  The      *)
(* result is a status with the resolved user id, or the 401/403 raised.    *)
(***************************************************************************)
Resolved(user_id) ==
  [status |-> 200, detail |-> "", headers |-> NoHeaders, user_id |-> user_id]

Refused(status, detail, headers) ==
  [status |-> status, detail |-> detail, headers |-> headers, user_id |-> None]

get_current_user(bearer) ==
  IF bearer = <<>>
  THEN Refused(401, "Not authenticated", BearerChallenge)
  ELSE
    LET decoded == decode_access_token(bearer[1])
        sub == IF "sub" \in DOMAIN decoded.payload THEN decoded.payload["sub"] ELSE <<>>
        user_id == StrToInt(sub)
    IN IF decoded.status # 200
       THEN Refused(401, decoded.detail, BearerChallenge)
       ELSE IF sub = <<>>
       THEN Refused(401, "Incorrect token", BearerChallenge)
       ELSE IF user_id = None
       THEN Refused(401, "Authentication error", BearerChallenge)
       ELSE IF user_id \notin DOMAIN users
       THEN Refused(401, "User not found", BearerChallenge)
       ELSE Resolved(user_id)

\* The dependency without the test of is_admin.
get_current_admin_user_unchecked(bearer) == get_current_user(bearer)

get_current_admin_user(bearer) ==
  LET current_user == get_current_user(bearer)
  IN IF current_user.status # 200
     THEN current_user
     ELSE IF ~users[current_user.user_id].is_admin
     THEN Refused(403, "Administrator rights required", NoHeaders)
     ELSE current_user

\* The HTTPException a failed dependency ends the request with.
Rejection(auth) == HTTPException(auth.status, auth.detail, auth.headers)


(***************************************************************************)
(* E-mail addresses.  EmailStr (pydantic, email-validator) strips the      *)
(* surrounding whitespace and lower-cases the domain, keeping the case of  *)
(* the local part; the users.email column validator strips and lower-cases *)
(* the whole address and matches it against its regular expression.        *)
(***************************************************************************)
IsLocalChar(c) == IsLetter(c) \/ IsDigit(c) \/ c \in {".", "_", "%", "+", "-"}

IsDomainChar(c) == IsLetter(c) \/ IsDigit(c) \/ c \in {".", "-"}

\* ^[a-zA-Z0-9._%+-]+@[a-zA-Z0-9.-]+\.[a-zA-Z]{2,}$
MatchesEmailRegex(s) ==
  LET at == AtPos(s)
      n == Len(s)
  IN /\ at > 1
     /\ \A i \in 1..(at - 1) : IsLocalChar(s[i])
     /\ \E dot \in (at + 2)..(n - 2) :
          /\ s[dot] = "."
          /\ \A i \in (at + 1)..(dot - 1) : IsDomainChar(s[i])
          /\ \A i \in (dot + 1)..n : IsLetter(s[i])

EmailStr(value) ==
  LET s == Strip(value)
      at == AtPos(s)
      normalized ==
        [i \in DOMAIN s |-> IF i > at /\ IsUpper(s[i]) THEN UpperToLower[s[i]] ELSE s[i]]
  IN IF MatchesEmailRegex(s)
     THEN [ok |-> TRUE, value |-> normalized]
     ELSE [ok |-> FALSE, value |-> <<>>]

\* User.validate_email: the stored value, or a ValueError.
validate_email(email) ==
  LET stored == Lower(Strip(email))
  IN IF Strip(email) = <<>> \/ ~MatchesEmailRegex(stored)
     THEN [ok |-> FALSE, value |-> <<>>]
     ELSE [ok |-> TRUE, value |-> stored]

(***************************************************************************)
(* app/auth/security.py.  A bcrypt hash is modelled by the password it was *)
(* made from: verify accepts exactly that password.                        *)
(***************************************************************************)
\* The passwords of the accounts that exist at the start.
Password_1 == <<"a", "b", "x", "i", "o", "a", "b", "1">>
Password_2 == <<"a", "b", "x", "i", "o", "a", "b", "2">>
Password_3 == <<"a", "b", "x", "i", "o", "a", "b", "3">>

hash_password(password) == [bcrypt_of |-> password]

verify_password(plain_password, hashed_password) ==
  hashed_password.bcrypt_of = plain_password

(***************************************************************************)
(* app/models/user.py                                                      *)
(***************************************************************************)
User(email, hashed_password) ==
  [email |-> email, hashed_password |-> hashed_password, is_premium |-> FALSE,
   is_active |-> TRUE, is_admin |-> FALSE, last_login |-> None]

\* db.query(User).filter(User.email == email).first(): the ids of the rows found.
UsersByEmail(email) == {i \in DOMAIN users : users[i].email = email}

UserRead(id) ==
  [kind |-> "user", id |-> id, email |-> users[id].email,
   is_premium |-> users[id].is_premium, is_active |-> users[id].is_active,
   is_admin |-> users[id].is_admin]

\* A login that leaves the lifetime to the configured default.
LoginExpiresDeltaDefault == None

\* timedelta(hours=24)
LoginExpiresDelta == LOGIN_EXPIRES_IN

(***************************************************************************)
(* app/routers/auth.py                                                     *)
(***************************************************************************)
\* validate_password of UserCreate and of PasswordChange: a digit and a letter.
validate_password(v) ==
  /\ \E i \in DOMAIN v : IsDigit(v[i])
  /\ \E i \in DOMAIN v : IsLetter(v[i])

\* What pydantic checks of a password field: Field(min_length=8,
\* max_length=128).  validate_password is decorated @classmethod above
\* @field_validator: the class attribute is a classmethod, not the proxy that
\* pydantic collects, and the function is no validator of the model.
PasswordFieldValid(password) ==
  Len(password) >= PASSWORD_MIN_LENGTH /\ Len(password) <= PASSWORD_MAX_LENGTH

\* POST /auth/register
register(email_field, password) ==
  LET args == [email |-> email_field, password |-> password]
      parsed == EmailStr(email_field)
      email == parsed.value
      checked == validate_email(email)
      new_id == Len(users) + 1
      row == User(checked.value, hash_password(password))
      raised ==
        IF ~parsed.ok \/ ~PasswordFieldValid(password)
        THEN HTTPException(422, "Validation error", NoHeaders)
        ELSE IF UsersByEmail(email) # {}
        THEN HTTPException(409, "User with this email already exists", NoHeaders)
        ELSE IF ~checked.ok \/ UsersByEmail(checked.value) # {}
        THEN \* a ValueError of the validator, or the unique constraint at commit
             HTTPException(500, "Registration error", NoHeaders)
        ELSE Success(201, NoData)
  IN /\ UNCHANGED <<dishes, recipes, recipe_steps, recipe_ingredients, ingredients,
                    cooking_sessions, user_activities, id_seq>>
     /\ UNCHANGED <<fileVars, envVars>>
     /\ IF raised.status # 201
        THEN /\ resp' = Answer("register", args, raised)
             /\ UNCHANGED users
        ELSE /\ users' = Append(users, row)
             /\ resp' = Answer("register", args,
                   Success(201, [kind |-> "user", id |-> new_id, email |-> row.email,
                                 is_premium |-> FALSE, is_active |-> TRUE,
                                 is_admin |-> FALSE]))

\* A refusal that tells the client the account does not exist.
UnknownUserRevealed == HTTPException(404, "User not found", NoHeaders)

\* The two refusals of login: no row for the e-mail, and a wrong password.
UnknownUserRefusal ==
  HTTPException(401, "Invalid email or password", BearerChallenge)

WrongPasswordRefusal ==
  HTTPException(401, "Invalid email or password", BearerChallenge)

\* POST /auth/login
login(username_field, password) ==
  LET args == [username |-> username_field, password |-> password]
      username == Strip(Lower(username_field))
      found == UsersByEmail(username)
      user_id == CHOOSE i \in found : TRUE
      access_token ==
        create_access_token([sub |-> IntToStr(user_id)], LoginExpiresDelta)
  IN /\ UNCHANGED <<dishes, recipes, recipe_steps, recipe_ingredients, ingredients,
                    cooking_sessions, user_activities, id_seq>>
     /\ UNCHANGED <<fileVars, settings, now, db_faults, cache_manager, in_flight>>
     /\ IF found = {}
        THEN /\ resp' = Answer("login", args, UnknownUserRefusal)
             /\ UNCHANGED <<users, tokens>>
        ELSE IF ~verify_password(password, users[user_id].hashed_password)
        THEN /\ resp' = Answer("login", args, WrongPasswordRefusal)
             /\ UNCHANGED <<users, tokens>>
        ELSE /\ users' = [users EXCEPT ![user_id].last_login = now]
             /\ tokens' = tokens \cup
                  {[access_token |-> access_token,
                    claims |-> [sub |-> IntToStr(user_id)],
                    login_of |-> user_id]}
             /\ resp' = Answer("login", args,
                   Success(200, [kind |-> "token", access_token |-> access_token,
                                 token_type |-> "bearer",
                                 expires_in |-> LOGIN_EXPIRES_IN,
                                 user_id |-> user_id]))

(***************************************************************************)
(* Clients.  A request carries no Authorization header, a token the        *)
(* service issued, or some other token: one signed with another key or     *)
(* another algorithm, or one made with the service's key outside           *)
(* create_access_token (no type, another type, no sub, a sub that is not a *)
(* number, the id of no user, an exp in the past).                         *)
(***************************************************************************)
HeldTokens == {t.access_token : t \in tokens}

ForeignPayload(sub, type, exp) ==
  [sub |-> sub, type |-> type, exp |-> exp, iat |-> 0]

PresentedTokens ==
  LET key == settings.JWT_SECRET_KEY
      alg == settings.JWT_ALGORITHM
      later == now + LOGIN_EXPIRES_IN
      one == IntToStr(1)
  IN {jwt_encode(ForeignPayload(one, "access", later), "another-key", alg),
      jwt_encode(ForeignPayload(one, "access", later), key, "HS512"),
      jwt_encode(ForeignPayload(one, "refresh", later), key, alg),
      jwt_encode([sub |-> one, exp |-> later, iat |-> 0], key, alg),
      jwt_encode([type |-> "access", exp |-> later, iat |-> 0], key, alg),
      jwt_encode(ForeignPayload(<<"x">>, "access", later), key, alg),
      jwt_encode(ForeignPayload(IntToStr(Len(users) + 1), "access", later), key, alg),
      jwt_encode(ForeignPayload(one, "access", now - 1), key, alg)}

Bearers == {<<>>} \cup {<<t>> : t \in HeldTokens \cup PresentedTokens}

\* A dependency raised: the request ends with its exception, nothing is touched.
Reject(op, args, auth) ==
  /\ resp' = Answer(op, args, Rejection(auth))
  /\ UNCHANGED <<dbVars, fileVars, envVars>>

(***************************************************************************)
(* The clock.  Time passes between requests; the instants looked at are    *)
(* the seconds around every expiry a token of the model can have.          *)
(***************************************************************************)
ExpireMinutesChoices == {1, DEFAULT_EXPIRE_MINUTES, 2 * DEFAULT_EXPIRE_MINUTES}

ExpiresDeltaChoices == {None, SECONDS_PER_MINUTE}

Instants ==
  {t + d : t \in 0..(MaxLoginTime + 1),
           d \in {0, LOGIN_EXPIRES_IN} \cup (ExpiresDeltaChoices \ {None})
                   \cup {SECONDS_PER_MINUTE * m : m \in ExpireMinutesChoices}}

Tick ==
  /\ \E t \in Instants : t > now /\ now' = t
  /\ UNCHANGED <<dbVars, fileVars, settings, tokens, db_faults, cache_manager,
               in_flight, resp>>

\* The claims callers hand to create_access_token.
ClaimsChoices ==
  {[sub |-> IntToStr(1)], [sub |-> IntToStr(2), scope |-> "read"], [scope |-> "read"]}

\* A call of create_access_token(data, expires_delta) by any caller.
IssueToken(data, expires_delta) ==
  /\ tokens' = tokens \cup
       {[access_token |-> create_access_token(data, expires_delta),
         claims |-> data, login_of |-> None]}
  /\ UNCHANGED <<dbVars, fileVars, settings, now, db_faults, cache_manager,
               in_flight, resp>>

(***************************************************************************)
(* app/routers/users.py                                                    *)
(***************************************************************************)
\* GET /users/me
get_current_user_profile(bearer) ==
  LET auth == get_current_user(bearer)
  IN IF auth.status # 200
     THEN Reject("get_current_user_profile", NoArgs, auth)
     ELSE /\ resp' = Answer("get_current_user_profile", NoArgs, Success(200, UserRead(auth.user_id)))
          /\ UNCHANGED <<dbVars, fileVars, envVars>>

(***************************************************************************)
(* app/utils/limits.py                                                     *)
(***************************************************************************)
MEGABYTE == 1024 * 1024

\* The limits of the premium tier, for every user.
get_user_limits_premium(is_premium) ==
  [max_dishes |-> PREMIUM_MAX_DISHES,
   max_recipes_per_dish |-> PREMIUM_MAX_RECIPES_PER_DISH,
   max_photo_size |-> 10 * MEGABYTE]

get_user_limits(is_premium) ==
  IF is_premium
  THEN [max_dishes |-> PREMIUM_MAX_DISHES,
        max_recipes_per_dish |-> PREMIUM_MAX_RECIPES_PER_DISH,
        max_photo_size |-> 10 * MEGABYTE]
  ELSE [max_dishes |-> FREE_MAX_DISHES,
        max_recipes_per_dish |-> FREE_MAX_RECIPES_PER_DISH,
        max_photo_size |-> 2 * MEGABYTE]

\* POST /auth/subscription/upgrade
upgrade(bearer) ==
  LET auth == get_current_user(bearer)
      user == auth.user_id
  IN IF auth.status # 200
     THEN Reject("upgrade", NoArgs, auth)
     ELSE IF users[user].is_premium
     THEN /\ resp' = Answer("upgrade", NoArgs,
                HTTPException(400, "Premium subscription already active", NoHeaders))
          /\ UNCHANGED <<dbVars, fileVars, envVars>>
     ELSE /\ users' = [users EXCEPT ![user].is_premium = TRUE]
          /\ resp' = Answer("upgrade", NoArgs, Success(200, [kind |-> "message"]))
          /\ UNCHANGED <<dishes, recipes, recipe_steps, recipe_ingredients, ingredients,
                         cooking_sessions, user_activities, id_seq>>
          /\ UNCHANGED <<fileVars, envVars>>

(***************************************************************************)
(* app/routers/dishes.py, app/models/dish.py                               *)
(***************************************************************************)
IsBlank(text) == Strip(text) = <<>>

\* Every dish, whoever owns it.
DishesOfAnyone(user) == DOMAIN dishes

DishesOf(user) == {d \in DOMAIN dishes : dishes[d].user_id = user}

\* POST /dishes/
create_dish(bearer, data) ==
  LET auth == get_current_user(bearer)
      user == auth.user_id
      limits == get_user_limits(users[user].is_premium)
      count == Cardinality(DishesOf(user))
      dish == [name |-> Strip(data.name), category |-> data.category, user_id |-> user]
  IN IF auth.status # 200
     THEN Reject("create_dish", data, auth)
     ELSE IF count >= limits.max_dishes
     THEN /\ resp' = Answer("create_dish", data,
                HTTPException(403, "Dish limit exceeded (" \o ToString(limits.max_dishes) \o ")",
                              NoHeaders))
          /\ UNCHANGED <<dbVars, fileVars, envVars>>
     ELSE IF IsBlank(data.name)
     THEN \* Dish.validate_name raises ValueError
          /\ resp' = Answer("create_dish", data,
                HTTPException(500, "Error creating dish", NoHeaders))
          /\ UNCHANGED <<dbVars, fileVars, envVars>>
     ELSE /\ dishes' = Append(dishes, dish)
          /\ resp' = Answer("create_dish", data,
                Success(201, [kind |-> "dish", id |-> Len(dishes) + 1, name |-> dish.name,
                              category |-> dish.category]))
          /\ UNCHANGED <<users, recipes, recipe_steps, recipe_ingredients, ingredients,
                         cooking_sessions, user_activities, id_seq>>
          /\ UNCHANGED <<fileVars, envVars>>

(***************************************************************************)
(* app/routers/recipes.py.  Step descriptions are taken to be non-blank.   *)
(***************************************************************************)
RecipesOf(dish_id) == {r \in recipes : r.dish_id = dish_id}

\* The ids of data.ingredients that db.query(Ingredient).filter_by(id=...) finds.
FoundIngredients(ids) == SelectSeq(ids, LAMBDA i : i \in DOMAIN ingredients)

\* POST /dishes/{dish_id}/recipes
\* Where the database fails in a request that writes: at the flush before the
\* commit, at the commit, or at the refresh after it; "none" when it does not.
DatabaseFaults ==
  IF db_faults THEN {"none", "flush", "commit", "refresh"} ELSE {"none"}

\* The rows add_recipe builds: the Recipe, its RecipeSteps and the
\* RecipeIngredients of the ingredients that exist.
NewRecipeRows(dish_id, data) ==
  LET recipe_id == id_seq.recipes + 1
      found == FoundIngredients(data.ingredients)
  IN [recipe |-> [id |-> recipe_id, dish_id |-> dish_id, cook_time |-> data.cook_time,
                  cook_method |-> Strip(data.cook_method), servings |-> data.servings,
                  photo_url |-> <<>>, is_favorite |-> FALSE],
      steps |-> {[id |-> id_seq.recipe_steps + i, recipe_id |-> recipe_id,
                  description |-> Strip(data.steps[i].description),
                  duration |-> data.steps[i].duration] : i \in DOMAIN data.steps},
      found |-> found,
      links |-> {[id |-> id_seq.recipe_ingredients + i, recipe_id |-> recipe_id,
                  ingredient_id |-> found[i], amount |-> 1, unit |-> "pcs"] :
                  i \in DOMAIN found}]

add_recipe(bearer, dish_id, data) ==
  LET args == [dish_id |-> dish_id, data |-> data]
      auth == get_current_user(bearer)
      user == auth.user_id
      limits == get_user_limits(users[user].is_premium)
      count == Cardinality(RecipesOf(dish_id))
      recipe_id == id_seq.recipes + 1
      rows == NewRecipeRows(dish_id, data)
      recipe == rows.recipe
      steps == rows.steps
      found == rows.found
      links == rows.links
  IN IF auth.status # 200
     THEN Reject("add_recipe", args, auth)
     ELSE IF dish_id \notin DishesOf(user)
     THEN /\ resp' = Answer("add_recipe", args, HTTPException(404, "Dish not found", NoHeaders))
          /\ UNCHANGED <<dbVars, fileVars, envVars>>
     ELSE IF count >= limits.max_recipes_per_dish
     THEN /\ resp' = Answer("add_recipe", args,
                HTTPException(403, "Recipe limit for dish exceeded ("
                                     \o ToString(limits.max_recipes_per_dish) \o ")",
                              NoHeaders))
          /\ UNCHANGED <<dbVars, fileVars, envVars>>
     ELSE IF IsBlank(data.cook_method)
     THEN \* Recipe.validate_cook_method raises ValueError
          /\ resp' = Answer("add_recipe", args,
                HTTPException(500, "Error adding recipe", NoHeaders))
          /\ UNCHANGED <<dbVars, fileVars, envVars>>
     ELSE \E fault \in DatabaseFaults :
          /\ UNCHANGED <<users, dishes, ingredients, cooking_sessions, user_activities>>
          /\ UNCHANGED <<fileVars, envVars>>
          /\ IF fault \in {"flush", "commit"}
             THEN \* nothing was committed when the session is closed; the id the
                  \* flush gave the recipe is spent
                  /\ resp' = Answer("add_recipe", args,
                        HTTPException(500, "Error adding recipe", NoHeaders))
                  /\ id_seq' = IF fault = "commit"
                               THEN [id_seq EXCEPT !.recipes = recipe_id] ELSE id_seq
                  /\ UNCHANGED <<recipes, recipe_steps, recipe_ingredients>>
             ELSE /\ recipes' = recipes \cup {recipe}
                  /\ recipe_steps' = recipe_steps \cup steps
                  /\ recipe_ingredients' = recipe_ingredients \cup links
                  /\ id_seq' = [id_seq EXCEPT !.recipes = recipe_id,
                                              !.recipe_steps = @ + Len(data.steps),
                                              !.recipe_ingredients = @ + Len(found)]
                  /\ resp' = Answer("add_recipe", args,
                        IF fault = "refresh"
                        THEN HTTPException(500, "Error adding recipe", NoHeaders)
                        ELSE Success(201, [kind |-> "recipe", id |-> recipe_id,
                                           steps |-> {st.id : st \in steps}]))

(***************************************************************************)
(* Recipe-scoped operations.  Each starts with the same query: the recipe  *)
(* with the given id whose dish belongs to the caller.                     *)
(***************************************************************************)
\* The recipe with the id, whoever owns its dish.
RecipeOfAnyone(user, recipe_id) == {r \in recipes : r.id = recipe_id}

\* db.query(Recipe).join(Recipe.dish).filter(Recipe.id == recipe_id, Dish.user_id == user.id)
OwnedRecipe(user, recipe_id) ==
  {r \in recipes : r.id = recipe_id /\ dishes[r.dish_id].user_id = user}

RecipeNotFound == HTTPException(404, "Recipe not found", NoHeaders)

Message == [kind |-> "message"]

(***************************************************************************)
(* app/utils/media.py, app/utils/tts.py                                    *)
(***************************************************************************)
ALLOWED_EXTENSIONS == {".jpg", ".jpeg", ".png"}

MAX_FILE_SIZE == 5 * MEGABYTE

\* uuid4().hex[:8], rendered as the first number no file of the recipe uses.
FreshName(recipe_id) ==
  CHOOSE n \in 1..(Cardinality(photo_files) + 1) :
    \A f \in photo_files : ~(f.recipe_id = recipe_id /\ f.uuid = n)

\* The file save_photo writes, when it accepts the upload.
SavedPhoto(photo, recipe_id) ==
  [recipe_id |-> recipe_id, uuid |-> FreshName(recipe_id), ext |-> photo.ext]

\* f"recipe_{recipe_id}_step_"
CachePattern(recipe_id) ==
  <<"r", "e", "c", "i", "p", "e", "_">> \o IntToStr(recipe_id)
    \o <<"_", "s", "t", "e", "p", "_">>

\* f"recipe_{recipe_id}_step_{step_number}"
VoiceId(recipe_id, step_number) == CachePattern(recipe_id) \o IntToStr(step_number)

\* The cache file: its stem is the md5 digest of f"{text}_{voice}".  The
\* digest is kept as the string it is the digest of: two files are the same
\* file exactly when the digested strings are equal.
get_tts_cache_path(text, voice) == [md5_of |-> text \o <<"_">> \o voice]

\* hexdigest() is made of these characters.
HexDigits ==
  {"0", "1", "2", "3", "4", "5", "6", "7", "8", "9", "a", "b", "c", "d", "e", "f"}

\* sub in s
Occurs(sub, s) ==
  \E i \in 1..(Len(s) - Len(sub) + 1) : SubSeq(s, i, i + Len(sub) - 1) = sub

\* A purge that looks for f"recipe_{recipe_id}" in the digested string itself.
PatternPrefixInDigested(recipe_id, file) ==
  Occurs(<<"r", "e", "c", "i", "p", "e", "_">> \o IntToStr(recipe_id), file.md5_of)

\* `pattern in file_path.stem`: the stem is a hexdigest, so that a pattern
\* occurs in it only if the pattern is made of hexadecimal digits.
PatternInStem(recipe_id, file) ==
  \A i \in DOMAIN CachePattern(recipe_id) : CachePattern(recipe_id)[i] \in HexDigits

\* The files delete_tts_cache_for_recipe unlinks.
TtsFilesOfRecipe(recipe_id) == {f \in tts_files : PatternInStem(recipe_id, f)}

CleanupTask(file) == [task |-> "cleanup_old_photo", target |-> file]

TtsTask(text, voice) ==
  [task |-> "generate_tts_for_step", target |-> get_tts_cache_path(text, voice)]

(***************************************************************************)
(* app/routers/recipes.py, favorites.py, media.py                          *)
(***************************************************************************)
\* DELETE /recipes/{recipe_id}
delete_recipe(bearer, recipe_id) ==
  LET args == [recipe_id |-> recipe_id]
      auth == get_current_user(bearer)
      found == OwnedRecipe(auth.user_id, recipe_id)
      recipe == CHOOSE r \in found : TRUE
  IN IF auth.status # 200
     THEN Reject("delete_recipe", args, auth)
     ELSE IF found = {}
     THEN /\ resp' = Answer("delete_recipe", args, RecipeNotFound)
          /\ UNCHANGED <<dbVars, fileVars, envVars>>
     ELSE IF recipe.photo_url # <<>>
     THEN \* recipe.photo_url.scalar(): a str has no attribute scalar
          /\ resp' = Answer("delete_recipe", args,
                HTTPException(500, "Error deleting recipe", NoHeaders))
          /\ UNCHANGED <<dbVars, fileVars, envVars>>
     ELSE /\ tts_files' = tts_files \ TtsFilesOfRecipe(recipe_id)
          /\ recipes' = recipes \ {recipe}
          /\ recipe_steps' = {st \in recipe_steps : st.recipe_id # recipe_id}
          /\ recipe_ingredients' = {l \in recipe_ingredients : l.recipe_id # recipe_id}
          /\ cooking_sessions' = {cs \in cooking_sessions : cs.recipe_id # recipe_id}
          /\ user_activities' =
               [i \in DOMAIN user_activities |->
                  IF user_activities[i].recipe_id = recipe_id
                  THEN [user_activities[i] EXCEPT !.recipe_id = None]
                  ELSE user_activities[i]]
          /\ resp' = Answer("delete_recipe", args, Success(200, Message))
          /\ UNCHANGED <<users, dishes, ingredients, id_seq, photo_files,
                         background_tasks, envVars>>

\* PUT /recipes/{recipe_id}/favorite
toggle_favorite(bearer, recipe_id) ==
  LET args == [recipe_id |-> recipe_id]
      auth == get_current_user(bearer)
      found == OwnedRecipe(auth.user_id, recipe_id)
      recipe == CHOOSE r \in found : TRUE
      toggled == [recipe EXCEPT !.is_favorite = ~recipe.is_favorite]
  IN IF auth.status # 200
     THEN Reject("toggle_favorite", args, auth)
     ELSE IF found = {}
     THEN /\ resp' = Answer("toggle_favorite", args, RecipeNotFound)
          /\ UNCHANGED <<dbVars, fileVars, envVars>>
     ELSE /\ recipes' = (recipes \ {recipe}) \cup {toggled}
          /\ resp' = Answer("toggle_favorite", args,
                Success(200, [kind |-> "favorite", recipe_id |-> recipe_id,
                              is_favorite |-> toggled.is_favorite]))
          /\ UNCHANGED <<users, dishes, recipe_steps, recipe_ingredients, ingredients,
                         cooking_sessions, user_activities, id_seq>>
          /\ UNCHANGED <<fileVars, envVars>>

\* POST /recipes/{recipe_id}/photo.  photo = [ext, size].
upload_photo(bearer, recipe_id, photo) ==
  LET args == [recipe_id |-> recipe_id, photo |-> photo]
      auth == get_current_user(bearer)
      user == auth.user_id
      found == OwnedRecipe(user, recipe_id)
      recipe == CHOOSE r \in found : TRUE
      limits == get_user_limits(users[user].is_premium)
      file == SavedPhoto(photo, recipe_id)
  IN IF auth.status # 200
     THEN Reject("upload_photo", args, auth)
     ELSE IF found = {}
     THEN /\ resp' = Answer("upload_photo", args, RecipeNotFound)
          /\ UNCHANGED <<dbVars, fileVars, envVars>>
     ELSE IF ~users[user].is_premium /\ photo.size > limits.max_photo_size
     THEN /\ resp' = Answer("upload_photo", args,
                HTTPException(413, "Photo size exceeds 2.0MB", NoHeaders))
          /\ UNCHANGED <<dbVars, fileVars, envVars>>
     ELSE IF \/ recipe.photo_url # <<>>
             \/ photo.ext \notin ALLOWED_EXTENSIONS
             \/ photo.size > MAX_FILE_SIZE
     THEN \* photo_url.scalar() fails, or save_photo raises ValueError
          /\ resp' = Answer("upload_photo", args,
                HTTPException(500, "Error uploading photo", NoHeaders))
          /\ UNCHANGED <<dbVars, fileVars, envVars>>
     ELSE /\ photo_files' = photo_files \cup {file}
          /\ recipes' = (recipes \ {recipe}) \cup {[recipe EXCEPT !.photo_url = <<file>>]}
          /\ resp' = Answer("upload_photo", args,
                Success(200, [kind |-> "photo", photo_url |-> <<file>>]))
          /\ UNCHANGED <<users, dishes, recipe_steps, recipe_ingredients, ingredients,
                         cooking_sessions, user_activities, id_seq>>
          /\ UNCHANGED <<tts_files, background_tasks, envVars>>

\* DELETE /recipes/{recipe_id}/photo
delete_photo(bearer, recipe_id) ==
  LET args == [recipe_id |-> recipe_id]
      auth == get_current_user(bearer)
      found == OwnedRecipe(auth.user_id, recipe_id)
      recipe == CHOOSE r \in found : TRUE
  IN IF auth.status # 200
     THEN Reject("delete_photo", args, auth)
     ELSE IF found = {}
     THEN /\ resp' = Answer("delete_photo", args, RecipeNotFound)
          /\ UNCHANGED <<dbVars, fileVars, envVars>>
     ELSE /\ resp' = Answer("delete_photo", args, Success(200, Message))
          /\ IF recipe.photo_url # <<>>
             THEN /\ background_tasks' = background_tasks \cup {CleanupTask(recipe.photo_url[1])}
                  /\ recipes' = (recipes \ {recipe}) \cup {[recipe EXCEPT !.photo_url = <<>>]}
             ELSE UNCHANGED <<background_tasks, recipes>>
          /\ UNCHANGED <<users, dishes, recipe_steps, recipe_ingredients, ingredients,
                         cooking_sessions, user_activities, id_seq>>
          /\ UNCHANGED <<photo_files, tts_files, envVars>>

(***************************************************************************)
(* app/routers/tts.py                                                      *)
(***************************************************************************)
\* db.query(RecipeStep).filter(recipe_id == ...).order_by(RecipeStep.id).all()
RECURSIVE OrderById(_)
OrderById(rows) ==
  IF rows = {} THEN <<>>
  ELSE LET first == CHOOSE r \in rows : \A o \in rows : r.id <= o.id
       IN <<first>> \o OrderById(rows \ {first})

StepsOf(recipe_id) == OrderById({st \in recipe_steps : st.recipe_id = recipe_id})

\* GET /recipes/{recipe_id}/tts/step/{step_number}.  `generated` is whether the
\* speech engine, if it has to run, writes the file.
get_step_audio(bearer, recipe_id, step_number, generated) ==
  LET args == [recipe_id |-> recipe_id, step_number |-> step_number]
      auth == get_current_user(bearer)
      steps == StepsOf(recipe_id)
      cache_path ==
        get_tts_cache_path(steps[step_number].description, VoiceId(recipe_id, step_number))
  IN IF auth.status # 200
     THEN Reject("get_step_audio", args, auth)
     ELSE IF OwnedRecipe(auth.user_id, recipe_id) = {}
     THEN /\ resp' = Answer("get_step_audio", args, RecipeNotFound)
          /\ UNCHANGED <<dbVars, fileVars, envVars>>
     ELSE IF step_number < 1
     THEN \* OFFSET must not be negative
          /\ resp' = Answer("get_step_audio", args,
                HTTPException(500, "Error getting audio file", NoHeaders))
          /\ UNCHANGED <<dbVars, fileVars, envVars>>
     ELSE IF step_number > Len(steps)
     THEN /\ resp' = Answer("get_step_audio", args,
                HTTPException(404, "Step " \o ToString(step_number) \o " not found", NoHeaders))
          /\ UNCHANGED <<dbVars, fileVars, envVars>>
     ELSE IF cache_path \notin tts_files /\ ~generated
     THEN /\ resp' = Answer("get_step_audio", args,
                HTTPException(500, "TTS generation error", NoHeaders))
          /\ UNCHANGED <<dbVars, fileVars, envVars>>
     ELSE /\ tts_files' = tts_files \cup {cache_path}
          /\ resp' = Answer("get_step_audio", args,
                Success(200, [kind |-> "file", path |-> cache_path]))
          /\ UNCHANGED <<dbVars, photo_files, background_tasks, envVars>>

\* POST /recipes/{recipe_id}/tts/generate
generate_recipe_tts(bearer, recipe_id) ==
  LET args == [recipe_id |-> recipe_id]
      auth == get_current_user(bearer)
      steps == StepsOf(recipe_id)
      missing ==
        {i \in DOMAIN steps :
           get_tts_cache_path(steps[i].description, VoiceId(recipe_id, i)) \notin tts_files}
  IN IF auth.status # 200
     THEN Reject("generate_recipe_tts", args, auth)
     ELSE IF OwnedRecipe(auth.user_id, recipe_id) = {}
     THEN /\ resp' = Answer("generate_recipe_tts", args, RecipeNotFound)
          /\ UNCHANGED <<dbVars, fileVars, envVars>>
     ELSE IF steps = <<>>
     THEN /\ resp' = Answer("generate_recipe_tts", args,
                HTTPException(400, "Recipe has no steps", NoHeaders))
          /\ UNCHANGED <<dbVars, fileVars, envVars>>
     ELSE /\ background_tasks' = background_tasks \cup
               {TtsTask(steps[i].description, VoiceId(recipe_id, i)) : i \in missing}
          /\ resp' = Answer("generate_recipe_tts", args,
                Success(200, [kind |-> "tts_generate", total_steps |-> Len(steps),
                              generating_steps |-> Cardinality(missing),
                              cached_steps |-> Len(steps) - Cardinality(missing)]))
          /\ UNCHANGED <<dbVars, photo_files, tts_files, envVars>>

\* GET /recipes/{recipe_id}/tts/status
get_tts_status(bearer, recipe_id) ==
  LET args == [recipe_id |-> recipe_id]
      auth == get_current_user(bearer)
      steps == StepsOf(recipe_id)
      ready ==
        {i \in DOMAIN steps :
           get_tts_cache_path(steps[i].description, VoiceId(recipe_id, i)) \in tts_files}
  IN /\ UNCHANGED <<dbVars, fileVars, envVars>>
     /\ IF auth.status # 200
        THEN resp' = Answer("get_tts_status", args, Rejection(auth))
        ELSE IF OwnedRecipe(auth.user_id, recipe_id) = {}
        THEN resp' = Answer("get_tts_status", args, RecipeNotFound)
        ELSE resp' = Answer("get_tts_status", args,
                Success(200, [kind |-> "tts_status", total_steps |-> Len(steps),
                              ready_steps |-> Cardinality(ready)]))

\* DELETE /recipes/{recipe_id}/tts
delete_recipe_tts(bearer, recipe_id) ==
  LET args == [recipe_id |-> recipe_id]
      auth == get_current_user(bearer)
      deleted == TtsFilesOfRecipe(recipe_id)
  IN IF auth.status # 200
     THEN Reject("delete_recipe_tts", args, auth)
     ELSE IF OwnedRecipe(auth.user_id, recipe_id) = {}
     THEN /\ resp' = Answer("delete_recipe_tts", args, RecipeNotFound)
          /\ UNCHANGED <<dbVars, fileVars, envVars>>
     ELSE /\ tts_files' = tts_files \ deleted
          /\ resp' = Answer("delete_recipe_tts", args,
                Success(200, [kind |-> "tts_deleted",
                              deleted_files |-> Cardinality(deleted)]))
          /\ UNCHANGED <<dbVars, photo_files, background_tasks, envVars>>

\* A task added to BackgroundTasks runs after its response was sent.
RunBackgroundTask(generated) ==
  \E task \in background_tasks :
    /\ background_tasks' = background_tasks \ {task}
    /\ IF task.task = "cleanup_old_photo"
       THEN /\ photo_files' = photo_files \ {task.target}
            /\ UNCHANGED tts_files
       ELSE /\ tts_files' = IF generated THEN tts_files \cup {task.target} ELSE tts_files
            /\ UNCHANGED photo_files
    /\ UNCHANGED <<dbVars, envVars, resp>>

(***************************************************************************)
(* app/routers/analytics.py                                                *)
(***************************************************************************)
\* POST /analytics/activity.  activity = [recipe_id, activity_type].
track_activity(bearer, activity) ==
  LET auth == get_current_user(bearer)
      user == auth.user_id
      row == [user_id |-> user, recipe_id |-> activity.recipe_id,
              activity_type |-> activity.activity_type]
  IN IF auth.status # 200
     THEN Reject("track_activity", activity, auth)
     ELSE IF /\ activity.recipe_id # None
             /\ activity.recipe_id # 0
             /\ OwnedRecipe(user, activity.recipe_id) = {}
     THEN /\ resp' = Answer("track_activity", activity, RecipeNotFound)
          /\ UNCHANGED <<dbVars, fileVars, envVars>>
     ELSE IF /\ activity.recipe_id # None
             /\ \A r \in recipes : r.id # activity.recipe_id
     THEN \* the foreign key user_activities.recipe_id fails at commit
          /\ resp' = Answer("track_activity", activity,
                HTTPException(500, "Error recording activity", NoHeaders))
          /\ UNCHANGED <<dbVars, fileVars, envVars>>
     ELSE /\ user_activities' = Append(user_activities, row)
          /\ resp' = Answer("track_activity", activity,
                Success(200, [kind |-> "activity", id |-> Len(user_activities) + 1,
                              recipe_id |-> activity.recipe_id]))
          /\ UNCHANGED <<users, dishes, recipes, recipe_steps, recipe_ingredients,
                         ingredients, cooking_sessions, id_seq>>
          /\ UNCHANGED <<fileVars, envVars>>

\* POST /analytics/cooking-sessions.  session_data = [recipe_id, total_steps].
start_cooking_session(bearer, session_data) ==
  LET auth == get_current_user(bearer)
      user == auth.user_id
      session_id == id_seq.cooking_sessions + 1
      cooking_session ==
        [id |-> session_id, user_id |-> user, recipe_id |-> session_data.recipe_id,
         is_completed |-> FALSE, current_step |-> 1,
         total_steps |-> session_data.total_steps, started_at |-> now,
         completed_at |-> None, notes |-> None, rating |-> None]
      activity == [user_id |-> user, recipe_id |-> session_data.recipe_id,
                   activity_type |-> "start_cooking"]
  IN IF auth.status # 200
     THEN Reject("start_cooking_session", session_data, auth)
     ELSE IF OwnedRecipe(user, session_data.recipe_id) = {}
     THEN /\ resp' = Answer("start_cooking_session", session_data, RecipeNotFound)
          /\ UNCHANGED <<dbVars, fileVars, envVars>>
     ELSE \E fault \in DatabaseFaults \ {"flush"} :
          /\ UNCHANGED <<users, dishes, recipes, recipe_steps, recipe_ingredients,
                         ingredients>>
          /\ UNCHANGED <<fileVars, envVars>>
          /\ IF fault = "commit"
             THEN /\ resp' = Answer("start_cooking_session", session_data,
                        HTTPException(500, "Error starting cooking session", NoHeaders))
                  /\ UNCHANGED <<cooking_sessions, user_activities, id_seq>>
             ELSE /\ cooking_sessions' = cooking_sessions \cup {cooking_session}
                  /\ user_activities' = Append(user_activities, activity)
                  /\ id_seq' = [id_seq EXCEPT !.cooking_sessions = session_id]
                  /\ resp' = Answer("start_cooking_session", session_data,
                        IF fault = "refresh"
                        THEN HTTPException(500, "Error starting cooking session", NoHeaders)
                        ELSE Success(200, [kind |-> "cooking_session", id |-> session_id]))

(***************************************************************************)
(* Initial states.                                                        *)
(***************************************************************************)
Passwords == {Password_1, Password_2}

Email_a == <<"a", "@", "x", ".", "i", "o">>

Email_b == <<"b", "@", "x", ".", "i", "o">>

\* What clients type into the e-mail field.
EmailFields ==
  {Email_a, Email_b,
   <<"A", "@", "x", ".", "i", "o">>,
   <<"a", "@", "X", ".", "i", "o">>,
   <<" ", "a", "@", "x", ".", "i", "o">>,
   <<"a", "x", ".", "i", "o">>}

SettingsChoices ==
  {[JWT_SECRET_KEY |-> "secret-key", JWT_ALGORITHM |-> "HS256",
    JWT_ACCESS_TOKEN_EXPIRE_MINUTES |-> m] : m \in ExpireMinutesChoices}

DefaultSettings ==
  [JWT_SECRET_KEY |-> "secret-key", JWT_ALGORITHM |-> "HS256",
   JWT_ACCESS_TOKEN_EXPIRE_MINUTES |-> DEFAULT_EXPIRE_MINUTES]

NoResponse ==
  [op |-> "none", args |-> NoArgs, status |-> 0, detail |-> "", headers |-> NoHeaders, data |-> NoData]

EmptyTables ==
  /\ dishes = <<>>
  /\ recipes = {}
  /\ recipe_steps = {}
  /\ recipe_ingredients = {}
  /\ ingredients = <<>>
  /\ cooking_sessions = {}
  /\ user_activities = <<>>
  /\ id_seq = [recipes |-> 0, recipe_steps |-> 0, recipe_ingredients |-> 0,
              cooking_sessions |-> 0]

EmptyFiles ==
  /\ photo_files = {}
  /\ tts_files = {}
  /\ background_tasks = {}

\* Two registered accounts.
TwoUsers ==
  <<User(Email_a, hash_password(Password_1)),
    User(Email_b, hash_password(Password_2))>>

(***************************************************************************)
(* Tokens over time: logins, other callers of create_access_token, the     *)
(* clock, and a request that authenticates.                                *)
(***************************************************************************)
InitToken ==
  /\ settings \in SettingsChoices
  /\ now = 0
  /\ users = TwoUsers
  /\ EmptyTables
  /\ EmptyFiles
  /\ tokens = {}
  /\ db_faults = FALSE
  /\ cache_manager = NoCacheManager
  /\ in_flight = {}
  /\ resp = NoResponse

NextToken ==
  \/ Tick
  \/ \E u \in {Email_a, Email_b}, p \in Passwords :
       /\ now <= MaxLoginTime
       /\ Cardinality(tokens) < MaxTokens
       /\ login(u, p)
  \/ \E data \in ClaimsChoices, d \in ExpiresDeltaChoices :
       /\ now <= MaxLoginTime
       /\ Cardinality(tokens) < MaxTokens
       /\ IssueToken(data, d)
  \/ \E token \in HeldTokens : get_current_user_profile(<<token>>)

SpecToken == InitToken /\ [][NextToken]_vars

(***************************************************************************)
(* C6.  Token verification accepts a token iff it is signed with the       *)
(* configured key and algorithm, its exp is not before the current second  *)
(* and its type claim is "access".  Every token create_access_token        *)
(* returned decodes, until its expiry, to the claims the caller gave plus  *)
(* exp, iat and type = "access"; a correctly signed, unexpired token whose *)
(* type is absent or different is answered 401.                            *)
(***************************************************************************)
CorrectlySigned(token) ==
  token.key = settings.JWT_SECRET_KEY /\ token.alg = settings.JWT_ALGORITHM

Unexpired(token) == now <= token.payload["exp"]

TypeIsAccess(token) ==
  "type" \in DOMAIN token.payload /\ token.payload["type"] = "access"

C6_TokenVerification ==
  /\ \A token \in HeldTokens \cup PresentedTokens :
       /\ decode_access_token(token).status \in {200, 401}
       /\ decode_access_token(token).status = 200
            <=> CorrectlySigned(token) /\ Unexpired(token) /\ TypeIsAccess(token)
       /\ CorrectlySigned(token) /\ Unexpired(token) /\ ~TypeIsAccess(token)
            => /\ decode_access_token(token).status = 401
               /\ get_current_user(<<token>>).status = 401
  /\ \A t \in tokens :
       LET payload == t.access_token.payload
       IN /\ DOMAIN payload = DOMAIN t.claims \cup {"exp", "iat", "type"}
          /\ \A k \in DOMAIN t.claims : payload[k] = t.claims[k]
          /\ payload["type"] = "access"
          /\ payload["iat"] <= now
          /\ Unexpired(t.access_token)
               => decode_access_token(t.access_token) =
                    [status |-> 200, detail |-> "", payload |-> payload]

\* Time has passed since a caller's token with two claims was issued and it
\* still decodes, while another issued token has expired.
C6_Witness ==
  /\ \E t \in tokens :
       /\ t.login_of = None
       /\ DOMAIN t.claims = {"sub", "scope"}
       /\ t.access_token.payload["iat"] < now
       /\ decode_access_token(t.access_token).status = 200
  /\ \E t \in tokens : ~Unexpired(t.access_token)

(***************************************************************************)
(* C7.  The token of a successful login of user U at second t              *)
(* authenticates a request as U, and as nobody else, at every second up to *)
(* and including t + 86400, and is answered 401 at every later second,     *)
(* whatever JWT_ACCESS_TOKEN_EXPIRE_MINUTES is; the login sets U's         *)
(* last_login to t.                                                        *)
(***************************************************************************)
LoginTokens == {t \in tokens : t.login_of # None}

C7_LoginTokenLifetime ==
  /\ \A t \in LoginTokens :
       LET issued == t.access_token.payload["iat"]
           current_user == get_current_user(<<t.access_token>>)
       IN /\ t.access_token.payload["exp"] = issued + LOGIN_EXPIRES_IN
          /\ now <= issued + LOGIN_EXPIRES_IN => current_user = Resolved(t.login_of)
          /\ now > issued + LOGIN_EXPIRES_IN => current_user.status = 401
          /\ users[t.login_of].last_login >= issued
  /\ resp.op = "login" /\ resp.status = 200
       => LET U == resp.data.user_id
          IN /\ [access_token |-> resp.data.access_token,
                 claims |-> [sub |-> IntToStr(U)], login_of |-> U] \in tokens
             /\ users[U].last_login = resp.data.access_token.payload["iat"]
             /\ resp.data.expires_in = LOGIN_EXPIRES_IN

\* A login token is presented in its last valid second and in a later one,
\* under a configured lifetime that is not 24 hours.
C7_Witness ==
  /\ settings.JWT_ACCESS_TOKEN_EXPIRE_MINUTES # DEFAULT_EXPIRE_MINUTES
  /\ \E t \in LoginTokens :
       /\ now = t.access_token.payload["iat"] + LOGIN_EXPIRES_IN
       /\ get_current_user(<<t.access_token>>) = Resolved(t.login_of)
  /\ \E t \in LoginTokens :
       /\ now > t.access_token.payload["iat"] + LOGIN_EXPIRES_IN
       /\ get_current_user(<<t.access_token>>).status = 401

\* The claim as stated: valid before t + 24 h, Unauthorized from t + 24 h on.
C7_AsStated ==
  \A t \in LoginTokens :
    LET issued == t.access_token.payload["iat"]
        current_user == get_current_user(<<t.access_token>>)
    IN /\ now < issued + LOGIN_EXPIRES_IN => current_user = Resolved(t.login_of)
       /\ now >= issued + LOGIN_EXPIRES_IN => current_user.status = 401

(***************************************************************************)
(* Accounts: registrations and logins.                                     *)
(***************************************************************************)
InitAccounts ==
  /\ settings = DefaultSettings
  /\ now = 0
  /\ users = <<>>
  /\ EmptyTables
  /\ EmptyFiles
  /\ tokens = {}
  /\ db_faults = FALSE
  /\ cache_manager = NoCacheManager
  /\ in_flight = {}
  /\ resp = NoResponse

NextAccounts ==
  \/ \E e \in EmailFields, p \in Passwords :
       /\ register(e, p)
       /\ Len(users') <= MaxNewUsers
  \/ \E u \in EmailFields, p \in Passwords : login(u, p)

SpecAccounts == InitAccounts /\ [][NextAccounts]_vars

(***************************************************************************)
(* C4.  Once an account with e-mail E exists, every registration whose     *)
(* e-mail equals E after trimming whitespace and lower-casing is answered  *)
(* 409, creates no account and leaves the existing row unchanged.          *)
(***************************************************************************)
C4_DuplicateEmailConflict ==
  [][\A e \in EmailFields, p \in Passwords :
       register(e, p) /\ UsersByEmail(Lower(Strip(e))) # {}
         => resp'.status = 409 /\ users' = users]_vars

\* The registration that is answered 500: the address of an existing account
\* with another case in its local part.
C4_Witness ==
  /\ resp.op = "register"
  /\ resp.status = 500
  /\ UsersByEmail(Lower(Strip(resp.args.email))) # {}
  /\ UsersByEmail(EmailStr(resp.args.email).value) = {}

(***************************************************************************)
(* C5.  A login for an e-mail without account and a login with a wrong     *)
(* password for an existing account get the same response: 401, the same   *)
(* detail and the same headers; neither changes stored state (no           *)
(* last_login, no token).                                                  *)
(***************************************************************************)
LoginRefused(username_field, password) ==
  LET found == UsersByEmail(Strip(Lower(username_field)))
  IN \/ found = {}
     \/ \E i \in found : ~verify_password(password, users[i].hashed_password)

LoginToken(user_id) ==
  [access_token |-> create_access_token([sub |-> IntToStr(user_id)], LoginExpiresDelta),
   claims |-> [sub |-> IntToStr(user_id)], login_of |-> user_id]

Text_ab == <<"a", "b">>

\* What clients type into a text field: plain, padded, blank.
Texts == {Text_ab, <<" ", "a", "b", " ">>, <<" ", " ">>}

InitDishes ==
  /\ settings = DefaultSettings
  /\ now = 0
  /\ users = TwoUsers
  /\ \E k \in 0..MaxOtherDishes :
       dishes = [i \in 1..k |-> [name |-> Text_ab, category |-> "second", user_id |-> 2]]
  /\ recipes = {}
  /\ recipe_steps = {}
  /\ recipe_ingredients = {}
  /\ ingredients = <<>>
  /\ cooking_sessions = {}
  /\ user_activities = <<>>
  /\ id_seq = [recipes |-> 0, recipe_steps |-> 0, recipe_ingredients |-> 0,
               cooking_sessions |-> 0]
  /\ EmptyFiles
  /\ tokens = {LoginToken(1)}
  /\ db_faults = FALSE
  /\ cache_manager = NoCacheManager
  /\ in_flight = {}
  /\ resp = NoResponse

NextDishes ==
  \/ \E t \in HeldTokens, name \in Texts :
       create_dish(<<t>>, [name |-> name, category |-> "first"])
  \/ \E t \in HeldTokens : upgrade(<<t>>)

SpecDishes == InitDishes /\ [][NextDishes]_vars

(***************************************************************************)
(* C3.  A create-dish request (with a name that is not blank) of a         *)
(* non-premium user succeeds while the user owns fewer than 15 dishes and  *)
(* is answered 403, creating no dish, when the user owns 15; once the      *)
(* user's is_premium is true the ceiling is 45.                            *)
(***************************************************************************)
C3_DishCeiling ==
  [][\A t \in HeldTokens, name \in Texts :
       LET U == get_current_user(<<t>>).user_id
           owned == Cardinality({d \in DOMAIN dishes : dishes[d].user_id = U})
           ceiling == IF users[U].is_premium THEN PREMIUM_MAX_DISHES ELSE FREE_MAX_DISHES
       IN create_dish(<<t>>, [name |-> name, category |-> "first"]) /\ ~IsBlank(name)
            => IF owned < ceiling
               THEN /\ resp'.status = 201
                    /\ dishes' = Append(dishes, [name |-> Text_ab, category |-> "first",
                                                 user_id |-> U])
               ELSE /\ resp'.status = 403
                    /\ dishes' = dishes]_vars

\* The premium user owns 45 dishes and the next create-dish was refused.
C3_Witness ==
  /\ users[1].is_premium
  /\ Cardinality({d \in DOMAIN dishes : dishes[d].user_id = 1}) = PREMIUM_MAX_DISHES
  /\ Len(dishes) > PREMIUM_MAX_DISHES
  /\ resp.op = "create_dish"
  /\ resp.status = 403

(***************************************************************************)
(* Recipes of a dish: user 1 owns dish 1, user 2 owns dish 2.              *)
(***************************************************************************)
RecipePayloads ==
  {[cook_time |-> 30, cook_method |-> m, servings |-> 2, steps |-> st, ingredients |-> ing] :
     m \in {Text_ab, <<" ", " ", " ">>},
     st \in {<<[description |-> Text_ab, duration |-> 5]>>,
             <<[description |-> <<" ", "a", "b">>, duration |-> 5],
               [description |-> Text_ab, duration |-> 10]>>},
     ing \in {<<1>>, <<1, 7>>}}

InitRecipes ==
  /\ settings = DefaultSettings
  /\ now = 0
  /\ \E premium \in BOOLEAN : users = [TwoUsers EXCEPT ![1].is_premium = premium]
  /\ dishes = <<[name |-> Text_ab, category |-> "first", user_id |-> 1],
                [name |-> Text_ab, category |-> "second", user_id |-> 2]>>
  /\ recipes = {}
  /\ recipe_steps = {}
  /\ recipe_ingredients = {}
  /\ ingredients = <<[name |-> Text_ab, type |-> "other"]>>
  /\ cooking_sessions = {}
  /\ user_activities = <<>>
  /\ id_seq = [recipes |-> 0, recipe_steps |-> 0, recipe_ingredients |-> 0,
               cooking_sessions |-> 0]
  /\ EmptyFiles
  /\ tokens = {LoginToken(1)}
  /\ db_faults = FALSE
  /\ cache_manager = NoCacheManager
  /\ in_flight = {}
  /\ resp = NoResponse

NextRecipes ==
  \/ \E t \in HeldTokens, dish_id \in 1..(Len(dishes) + 1), data \in RecipePayloads :
       add_recipe(<<t>>, dish_id, data)
  \/ \E t \in HeldTokens : upgrade(<<t>>)

SpecRecipes == InitRecipes /\ [][NextRecipes]_vars

(***************************************************************************)
(* C10.  Add-recipe on a dish that does not exist or belongs to another    *)
(* user is answered 404; on an own dish that has the tier's maximum of     *)
(* recipes (3 free, 5 premium) it is answered 403; in both cases no        *)
(* recipe, step or ingredient-link row is created.  Below the maximum the  *)
(* request (with a cook method that is not blank) succeeds and its rows    *)
(* are created.                                                            *)
(***************************************************************************)
C10_AddRecipeRefusals ==
  [][\A t \in HeldTokens, dish_id \in 1..(Len(dishes) + 1), data \in RecipePayloads :
       LET U == get_current_user(<<t>>).user_id
           own == dish_id \in DOMAIN dishes /\ dishes[dish_id].user_id = U
           n == Cardinality({r \in recipes : r.dish_id = dish_id})
           maximum == IF users[U].is_premium THEN PREMIUM_MAX_RECIPES_PER_DISH
                      ELSE FREE_MAX_RECIPES_PER_DISH
       IN add_recipe(<<t>>, dish_id, data)
            => IF ~own
               THEN /\ resp'.status = 404
                    /\ UNCHANGED <<recipes, recipe_steps, recipe_ingredients>>
               ELSE IF n >= maximum
               THEN /\ resp'.status = 403
                    /\ UNCHANGED <<recipes, recipe_steps, recipe_ingredients>>
               ELSE ~IsBlank(data.cook_method)
                      => /\ resp'.status = 201
                         /\ \E r \in recipes' \ recipes :
                              /\ recipes' = recipes \cup {r}
                              /\ r.dish_id = dish_id
                              /\ Cardinality({st \in recipe_steps' \ recipe_steps :
                                                st.recipe_id = r.id}) = Len(data.steps)
                              /\ Cardinality(recipe_steps') =
                                   Cardinality(recipe_steps) + Len(data.steps)]_vars

\* The free user's dish holds 3 recipes and a fourth was refused; the dish of
\* the other user and the missing dish hold none.
C10_Witness ==
  /\ ~users[1].is_premium
  /\ Cardinality({r \in recipes : r.dish_id = 1}) = FREE_MAX_RECIPES_PER_DISH
  /\ resp.op = "add_recipe"
  /\ resp.status = 403
  /\ resp.args.dish_id = 1

(***************************************************************************)
(* Recipe-scoped operations: user 1 owns recipe 1, user 2 owns recipe 2;   *)
(* no recipe has the ids 0 and 3.                                          *)
(***************************************************************************)
SeedRecipe(id, dish_id) ==
  [id |-> id, dish_id |-> dish_id, cook_time |-> 30, cook_method |-> Text_ab,
   servings |-> 2, photo_url |-> <<>>, is_favorite |-> FALSE]

SeedStep(id, recipe_id) ==
  [id |-> id, recipe_id |-> recipe_id, description |-> Text_ab, duration |-> 5]

RecipeIds == 0..3

Photos ==
  {[ext |-> ".jpg", size |-> MEGABYTE], [ext |-> ".gif", size |-> MEGABYTE],
   [ext |-> ".jpg", size |-> 3 * MEGABYTE]}

InitRecipeOps ==
  /\ settings = DefaultSettings
  /\ now = 0
  /\ users = TwoUsers
  /\ dishes = <<[name |-> Text_ab, category |-> "first", user_id |-> 1],
                [name |-> Text_ab, category |-> "second", user_id |-> 2]>>
  /\ recipes = {SeedRecipe(1, 1), SeedRecipe(2, 2)}
  /\ recipe_steps = {SeedStep(1, 1), SeedStep(2, 2)}
  /\ recipe_ingredients = {}
  /\ ingredients = <<>>
  /\ cooking_sessions = {}
  /\ user_activities = <<>>
  /\ id_seq = [recipes |-> 2, recipe_steps |-> 2, recipe_ingredients |-> 0,
               cooking_sessions |-> 0]
  /\ EmptyFiles
  /\ tokens = {LoginToken(1)}
  /\ db_faults = FALSE
  /\ cache_manager = NoCacheManager
  /\ in_flight = {}
  /\ resp = NoResponse

NextRecipeOps ==
  \/ \E t \in HeldTokens, id \in RecipeIds : delete_recipe(<<t>>, id)
  \/ \E t \in HeldTokens, id \in RecipeIds : toggle_favorite(<<t>>, id)
  \/ \E t \in HeldTokens, id \in RecipeIds, photo \in Photos :
       /\ upload_photo(<<t>>, id, photo)
       /\ Cardinality(photo_files') <= MaxPhotoFiles
  \/ \E t \in HeldTokens, id \in RecipeIds : delete_photo(<<t>>, id)
  \/ \E t \in HeldTokens, id \in RecipeIds, n \in 0..2, generated \in BOOLEAN :
       get_step_audio(<<t>>, id, n, generated)
  \/ \E t \in HeldTokens, id \in RecipeIds : generate_recipe_tts(<<t>>, id)
  \/ \E t \in HeldTokens, id \in RecipeIds : get_tts_status(<<t>>, id)
  \/ \E t \in HeldTokens, id \in RecipeIds : delete_recipe_tts(<<t>>, id)
  \/ \E t \in HeldTokens, id \in RecipeIds \cup {None} :
       /\ track_activity(<<t>>, [recipe_id |-> id, activity_type |-> "view_recipe"])
       /\ Len(user_activities') <= MaxActivities
  \/ \E t \in HeldTokens, id \in RecipeIds :
       /\ start_cooking_session(<<t>>, [recipe_id |-> id, total_steps |-> 2])
       /\ Len(user_activities') <= MaxActivities
  \/ \E generated \in BOOLEAN : RunBackgroundTask(generated)

SpecRecipeOps == InitRecipeOps /\ [][NextRecipeOps]_vars

(***************************************************************************)
(* C2.  Every recipe-scoped operation (delete recipe, toggle favorite,     *)
(* upload photo, delete photo, TTS step audio / generate / status /        *)
(* delete, start cooking session, track activity with a recipe id) asked   *)
(* for a recipe id that does not exist or whose dish belongs to another    *)
(* user is answered 404 with one and the same response in the two cases,   *)
(* and creates, changes and deletes no row and no file.                    *)
(***************************************************************************)
\* The step is a recipe-scoped request of the holder of token t.
RecipeScopedRequest(t) ==
  LET a == resp'.args
  IN \/ resp'.op = "delete_recipe" /\ delete_recipe(<<t>>, a.recipe_id)
     \/ resp'.op = "toggle_favorite" /\ toggle_favorite(<<t>>, a.recipe_id)
     \/ resp'.op = "upload_photo" /\ upload_photo(<<t>>, a.recipe_id, a.photo)
     \/ resp'.op = "delete_photo" /\ delete_photo(<<t>>, a.recipe_id)
     \/ resp'.op = "get_step_audio"
          /\ \E generated \in BOOLEAN :
               get_step_audio(<<t>>, a.recipe_id, a.step_number, generated)
     \/ resp'.op = "generate_recipe_tts" /\ generate_recipe_tts(<<t>>, a.recipe_id)
     \/ resp'.op = "get_tts_status" /\ get_tts_status(<<t>>, a.recipe_id)
     \/ resp'.op = "delete_recipe_tts" /\ delete_recipe_tts(<<t>>, a.recipe_id)
     \/ resp'.op = "start_cooking_session" /\ start_cooking_session(<<t>>, a)
     \/ resp'.op = "track_activity" /\ a.recipe_id # None /\ track_activity(<<t>>, a)

\* The recipe id is the id of no recipe, or of a recipe of another user's dish.
AbsentOrForeign(user, recipe_id) ==
  \A r \in recipes : r.id = recipe_id => dishes[r.dish_id].user_id # user

NotFoundAndUntouched ==
  /\ resp'.status = 404
  /\ resp'.detail = "Recipe not found"
  /\ resp'.headers = NoHeaders
  /\ resp'.data = NoData
  /\ UNCHANGED <<dbVars, fileVars>>

C2_AbsentAndForeignAlike ==
  [][\A t \in HeldTokens :
       RecipeScopedRequest(t)
         /\ AbsentOrForeign(get_current_user(<<t>>).user_id, resp'.args.recipe_id)
         => NotFoundAndUntouched]_vars

\* The same, leaving out track-activity requests whose recipe id is 0.
C2_ExceptActivityWithIdZero ==
  [][\A t \in HeldTokens :
       RecipeScopedRequest(t)
         /\ AbsentOrForeign(get_current_user(<<t>>).user_id, resp'.args.recipe_id)
         /\ ~(resp'.op = "track_activity" /\ resp'.args.recipe_id = 0)
         => NotFoundAndUntouched]_vars

\* Track-activity with recipe id 0 was answered 500; no activity was recorded.
C2_Witness ==
  /\ resp.op = "track_activity"
  /\ resp.args.recipe_id = 0
  /\ resp.status = 500
  /\ user_activities = <<>>

(***************************************************************************)
(* Administration: app/routers/users.py (toggle-premium, toggle-active,    *)
(* get by id, self deactivation) and app/routers/admin.py (bulk action,    *)
(* cleanup).  Every admin handler depends on get_current_admin_user.       *)
(***************************************************************************)
UserNotFound == HTTPException(404, "User not found", NoHeaders)

\* POST /users/me/deactivate
deactivate_account(bearer) ==
  LET auth == get_current_user(bearer)
  IN IF auth.status # 200
     THEN Reject("deactivate_account", NoArgs, auth)
     ELSE /\ users' = [users EXCEPT ![auth.user_id].is_active = FALSE]
          /\ resp' = Answer("deactivate_account", NoArgs, Success(200, [kind |-> "message"]))
          /\ UNCHANGED <<dishes, recipes, recipe_steps, recipe_ingredients, ingredients,
                         cooking_sessions, user_activities, id_seq>>
          /\ UNCHANGED <<fileVars, envVars>>

\* GET /users/{user_id}
get_user_by_id(bearer, user_id) ==
  LET auth == get_current_admin_user(bearer)
      args == [user_id |-> user_id]
  IN IF auth.status # 200
     THEN Reject("get_user_by_id", args, auth)
     ELSE /\ resp' = Answer("get_user_by_id", args,
                            IF user_id \notin DOMAIN users THEN UserNotFound
                            ELSE Success(200, UserRead(user_id)))
          /\ UNCHANGED <<dbVars, fileVars, envVars>>

\* PUT /users/{user_id}/toggle-premium
toggle_user_premium(bearer, user_id) ==
  LET auth == get_current_admin_user(bearer)
      args == [user_id |-> user_id]
  IN IF auth.status # 200
     THEN Reject("toggle_user_premium", args, auth)
     ELSE IF user_id \notin DOMAIN users
     THEN /\ resp' = Answer("toggle_user_premium", args, UserNotFound)
          /\ UNCHANGED <<dbVars, fileVars, envVars>>
     ELSE /\ users' = [users EXCEPT ![user_id].is_premium = ~users[user_id].is_premium]
          /\ resp' = Answer("toggle_user_premium", args,
                            Success(200, [UserRead(user_id) EXCEPT
                                            !.is_premium = ~users[user_id].is_premium]))
          /\ UNCHANGED <<dishes, recipes, recipe_steps, recipe_ingredients, ingredients,
                         cooking_sessions, user_activities, id_seq>>
          /\ UNCHANGED <<fileVars, envVars>>

\* if user.id == admin_user.id
IsOwnAccount(user_id, admin_id) == user_id = admin_id

\* PUT /users/{user_id}/toggle-active
toggle_user_active(bearer, user_id) ==
  LET auth == get_current_admin_user(bearer)
      args == [user_id |-> user_id]
  IN IF auth.status # 200
     THEN Reject("toggle_user_active", args, auth)
     ELSE IF user_id \notin DOMAIN users
     THEN /\ resp' = Answer("toggle_user_active", args, UserNotFound)
          /\ UNCHANGED <<dbVars, fileVars, envVars>>
     ELSE IF IsOwnAccount(user_id, auth.user_id)
     THEN /\ resp' = Answer("toggle_user_active", args,
                            HTTPException(400, "Cannot deactivate own account", NoHeaders))
          /\ UNCHANGED <<dbVars, fileVars, envVars>>
     ELSE /\ users' = [users EXCEPT ![user_id].is_active = ~users[user_id].is_active]
          /\ resp' = Answer("toggle_user_active", args,
                            Success(200, [UserRead(user_id) EXCEPT
                                            !.is_active = ~users[user_id].is_active]))
          /\ UNCHANGED <<dishes, recipes, recipe_steps, recipe_ingredients, ingredients,
                         cooking_sessions, user_activities, id_seq>>
          /\ UNCHANGED <<fileVars, envVars>>

\* schemas/admin.py UserBulkAction
BulkActions == {"activate", "deactivate", "premium_on", "premium_off"}

UserBulkActionValid(action_data) ==
  /\ Len(action_data.user_ids) >= 1
  /\ Len(action_data.user_ids) <= 100
  /\ action_data.action \in BulkActions

\* The loop of bulk_user_action passes over no row.
SkipsNoRow(action, user_id, admin_id) == FALSE

\* if action_data.action in ["deactivate"] and user.id == admin.id: continue
SkipsOwnRow(action, user_id, admin_id) == action = "deactivate" /\ user_id = admin_id

\* The assignment the loop makes to one row.
BulkAssign(action, row) ==
  IF action = "activate" THEN [row EXCEPT !.is_active = TRUE]
  ELSE IF action = "deactivate" THEN [row EXCEPT !.is_active = FALSE]
  ELSE IF action = "premium_on" THEN [row EXCEPT !.is_premium = TRUE]
  ELSE IF action = "premium_off" THEN [row EXCEPT !.is_premium = FALSE]
  ELSE row

\* POST /admin/users/bulk-action
bulk_user_action(bearer, action_data) ==
  LET auth == get_current_admin_user(bearer)
      user_ids == action_data.user_ids
      action == action_data.action
      \* db.query(User).filter(User.id.in_(user_ids)).all()
      found == {i \in DOMAIN users : \E k \in DOMAIN user_ids : user_ids[k] = i}
      assigned == {i \in found : ~SkipsOwnRow(action, i, auth.user_id)}
  IN IF auth.status # 200
     THEN Reject("bulk_user_action", action_data, auth)
     ELSE IF ~UserBulkActionValid(action_data)
     THEN /\ resp' = Answer("bulk_user_action", action_data,
                            HTTPException(422, "Validation error", NoHeaders))
          /\ UNCHANGED <<dbVars, fileVars, envVars>>
     ELSE IF Cardinality(found) # Len(user_ids)
     THEN /\ resp' = Answer("bulk_user_action", action_data,
                            HTTPException(400, "Some users not found", NoHeaders))
          /\ UNCHANGED <<dbVars, fileVars, envVars>>
     ELSE \E fault \in DatabaseFaults \ {"flush", "refresh"} :
          /\ UNCHANGED <<dishes, recipes, recipe_steps, recipe_ingredients, ingredients,
                         cooking_sessions, user_activities, id_seq>>
          /\ UNCHANGED <<fileVars, envVars>>
          /\ IF fault = "commit"
             THEN \* db.rollback()
                  /\ resp' = Answer("bulk_user_action", action_data,
                        HTTPException(500, "Error in bulk action", NoHeaders))
                  /\ UNCHANGED users
             ELSE /\ users' = [i \in DOMAIN users |->
                                 IF i \in assigned THEN BulkAssign(action, users[i])
                                 ELSE users[i]]
                  /\ resp' = Answer("bulk_user_action", action_data,
                                    Success(200, [kind |-> "bulk",
                                                  updated_count |-> Cardinality(assigned)]))

\* DELETE /admin/content/cleanup: the declared clean-up deletes nothing.
cleanup_system(bearer) ==
  LET auth == get_current_admin_user(bearer)
  IN IF auth.status # 200
     THEN Reject("cleanup_system", NoArgs, auth)
     ELSE /\ resp' = Answer("cleanup_system", NoArgs,
                            Success(200, [kind |-> "cleanup", photos_deleted |-> 0,
                                          tts_files_deleted |-> 0]))
          /\ UNCHANGED <<dbVars, fileVars, envVars>>

(***************************************************************************)
(* Administration requests: user 1 is an administrator, users 2 and 3 are  *)
(* not; no user has the id 4.  The administrator is logged in.             *)
(***************************************************************************)
Email_c == <<"c", "@", "x", ".", "i", "o">>

ThreeUsers ==
  <<[User(Email_a, hash_password(Password_1)) EXCEPT !.is_admin = TRUE],
    User(Email_b, hash_password(Password_2)),
    User(Email_c, hash_password(Password_3))>>

UserIds == 1..4

\* The id lists of a bulk request: every list of up to MaxIdListLen ids, in
\* ascending order (the handler looks at the length of the list and at the
\* rows WHERE id IN the list, not at the order of the ids).
UserIdLists ==
  {ids \in UNION {[1..n -> UserIds] : n \in 0..MaxIdListLen} :
     \A k \in 1..(Len(ids) - 1) : ids[k] <= ids[k + 1]}

InitAdmin ==
  /\ settings = DefaultSettings
  /\ now = 0
  /\ users = ThreeUsers
  /\ EmptyTables
  /\ EmptyFiles
  /\ tokens = {LoginToken(1)}
  /\ db_faults = FALSE
  /\ cache_manager = NoCacheManager
  /\ in_flight = {}
  /\ resp = NoResponse

NextAdmin ==
  \/ \E t \in HeldTokens, id \in UserIds : toggle_user_active(<<t>>, id)
  \/ \E t \in HeldTokens, id \in UserIds : toggle_user_premium(<<t>>, id)
  \/ \E t \in HeldTokens, ids \in UserIdLists, action \in BulkActions \cup {"delete"} :
       bulk_user_action(<<t>>, [user_ids |-> ids, action |-> action])
  \/ \E t \in HeldTokens : deactivate_account(<<t>>)

SpecAdmin == InitAdmin /\ [][NextAdmin]_vars

\* The ids a bulk request lists.
Listed(user_ids) == {user_ids[k] : k \in DOMAIN user_ids}

\* The step is the request of the holder of token t to toggle-active or to
\* bulk-action.
ToggleActiveOrBulk(t) ==
  \/ resp'.op = "toggle_user_active" /\ toggle_user_active(<<t>>, resp'.args.user_id)
  \/ resp'.op = "bulk_user_action" /\ bulk_user_action(<<t>>, resp'.args)

(***************************************************************************)
(* C8.  No toggle-active and no bulk-action request of an administrator A  *)
(* deactivates A.  Toggle-active on A's own id is answered 400 and leaves  *)
(* every row as it was.  A bulk "deactivate" whose list contains A and     *)
(* that is accepted sets is_active to FALSE for every other listed user,   *)
(* leaves A's row and the rows not listed unchanged, and reports as        *)
(* updated_count the number of the other listed users; it is accepted      *)
(* whenever the listed ids are ids of users and no id is listed twice.     *)
(***************************************************************************)
C8_AdminKeepsOwnAccount ==
  [][\A t \in HeldTokens :
       LET auth == get_current_admin_user(<<t>>)
           A == auth.user_id
           a == resp'.args
       IN auth.status = 200 /\ ToggleActiveOrBulk(t) =>
            /\ users[A].is_active => users'[A].is_active
            /\ resp'.op = "toggle_user_active" /\ a.user_id = A =>
                 /\ resp'.status = 400
                 /\ users' = users
            /\ resp'.op = "bulk_user_action" /\ a.action = "deactivate"
                 /\ A \in Listed(a.user_ids) =>
                 /\ Listed(a.user_ids) \subseteq DOMAIN users
                      /\ Cardinality(Listed(a.user_ids)) = Len(a.user_ids)
                      => resp'.status = 200
                 /\ resp'.status = 200 =>
                      /\ \A u \in Listed(a.user_ids) \ {A} :
                           users'[u] = [users[u] EXCEPT !.is_active = FALSE]
                      /\ \A u \in DOMAIN users \ (Listed(a.user_ids) \ {A}) :
                           users'[u] = users[u]
                      /\ resp'.data.updated_count = Cardinality(Listed(a.user_ids) \ {A})]_vars

\* An accepted bulk "deactivate" of administrator 1 listed the administrator
\* and user 2: user 2 is inactive, the administrator is active, one row counted.
C8_Witness ==
  /\ resp.op = "bulk_user_action"
  /\ resp.args.action = "deactivate"
  /\ Listed(resp.args.user_ids) = {1, 2}
  /\ resp.status = 200
  /\ resp.data.updated_count = 1
  /\ users[1].is_active
  /\ ~users[2].is_active

(***************************************************************************)
(* C9.  A bulk-action request of an administrator changes no row and is    *)
(* answered 400 when some listed id is the id of no user; otherwise it is  *)
(* answered 200 and its updated_count is the number of user rows whose     *)
(* is_active or is_premium differs from before the call.                   *)
(***************************************************************************)
RowsChanged ==
  {u \in DOMAIN users : \/ users'[u].is_active # users[u].is_active
                        \/ users'[u].is_premium # users[u].is_premium}

C9_BulkActionCount ==
  [][\A t \in HeldTokens :
       /\ get_current_admin_user(<<t>>).status = 200
       /\ resp'.op = "bulk_user_action"
       /\ bulk_user_action(<<t>>, resp'.args)
       /\ UserBulkActionValid(resp'.args)
       => IF Listed(resp'.args.user_ids) \subseteq DOMAIN users
          THEN /\ resp'.status = 200
               /\ resp'.data.updated_count = Cardinality(RowsChanged)
          ELSE /\ resp'.status = 400
               /\ users' = users]_vars

\* The first half of C9 alone: a list with the id of no user is refused and
\* changes no row.
C9_UnknownIdRefused ==
  [][\A t \in HeldTokens :
       /\ get_current_admin_user(<<t>>).status = 200
       /\ resp'.op = "bulk_user_action"
       /\ bulk_user_action(<<t>>, resp'.args)
       /\ UserBulkActionValid(resp'.args)
       /\ ~(Listed(resp'.args.user_ids) \subseteq DOMAIN users)
       => resp'.status = 400 /\ users' = users]_vars

\* A bulk request all of whose ids are ids of users was refused.
C9_Witness ==
  /\ resp.op = "bulk_user_action"
  /\ UserBulkActionValid(resp.args)
  /\ Listed(resp.args.user_ids) \subseteq DOMAIN users
  /\ resp.status = 400

(***************************************************************************)
(* Access control.  Requests reach every handler without a bearer token    *)
(* and with each token that fails verification; the administration         *)
(* handlers are also asked by the logged-in user 2, who is no              *)
(* administrator.  User 2 owns recipe 2; of their own requests the ones    *)
(* made here are profile, upgrade, toggle favorite and delete              *)
(* recipe (their other requests are those of SpecRecipeOps); the requests  *)
(* they make without a valid token name recipe 2 and dish 2.               *)
(***************************************************************************)
\* No Authorization header, or a token that fails verification.
Unverified == {<<>>} \cup {<<t>> : t \in PresentedTokens}

SeedRecipeIds == {1, 2}

JpegPhoto == [ext |-> ".jpg", size |-> MEGABYTE]

DishPayload == [name |-> Text_ab, category |-> "first"]

RecipePayload ==
  [cook_time |-> 30, cook_method |-> Text_ab, servings |-> 2,
   steps |-> <<[description |-> Text_ab, duration |-> 5]>>, ingredients |-> <<>>]

InitAccess ==
  /\ settings = DefaultSettings
  /\ now = 0
  /\ users = ThreeUsers
  /\ dishes = <<[name |-> Text_ab, category |-> "first", user_id |-> 1],
                [name |-> Text_ab, category |-> "second", user_id |-> 2]>>
  /\ recipes = {SeedRecipe(1, 1), SeedRecipe(2, 2)}
  /\ recipe_steps = {SeedStep(1, 1), SeedStep(2, 2)}
  /\ recipe_ingredients = {}
  /\ ingredients = <<>>
  /\ cooking_sessions = {}
  /\ user_activities = <<>>
  /\ id_seq = [recipes |-> 2, recipe_steps |-> 2, recipe_ingredients |-> 0,
               cooking_sessions |-> 0]
  /\ EmptyFiles
  /\ tokens = {LoginToken(2)}
  /\ db_faults = FALSE
  /\ cache_manager = NoCacheManager
  /\ in_flight = {}
  /\ resp = NoResponse

NextAccess ==
  \/ \E bearer \in Bearers : get_current_user_profile(bearer)
  \/ \E bearer \in Bearers : upgrade(bearer)
  \/ \E bearer \in Unverified : deactivate_account(bearer)
  \/ \E bearer \in Bearers, id \in SeedRecipeIds : toggle_favorite(bearer, id)
  \/ \E bearer \in Bearers, id \in SeedRecipeIds : delete_recipe(bearer, id)
  \/ \E bearer \in Unverified : create_dish(bearer, DishPayload)
  \/ \E bearer \in Unverified : add_recipe(bearer, 2, RecipePayload)
  \/ \E bearer \in Unverified : upload_photo(bearer, 2, JpegPhoto)
  \/ \E bearer \in Unverified : delete_photo(bearer, 2)
  \/ \E bearer \in Unverified, generated \in BOOLEAN : get_step_audio(bearer, 2, 1, generated)
  \/ \E bearer \in Unverified : generate_recipe_tts(bearer, 2)
  \/ \E bearer \in Unverified : get_tts_status(bearer, 2)
  \/ \E bearer \in Unverified : delete_recipe_tts(bearer, 2)
  \/ \E bearer \in Unverified :
       track_activity(bearer, [recipe_id |-> 2, activity_type |-> "view_recipe"])
  \/ \E bearer \in Unverified :
       start_cooking_session(bearer, [recipe_id |-> 2, total_steps |-> 2])
  \/ \E bearer \in Bearers, id \in UserIds : get_user_by_id(bearer, id)
  \/ \E bearer \in Bearers, id \in UserIds : toggle_user_premium(bearer, id)
  \/ \E bearer \in Bearers, id \in UserIds : toggle_user_active(bearer, id)
  \/ \E bearer \in Bearers, action \in BulkActions :
       bulk_user_action(bearer, [user_ids |-> <<2, 3>>, action |-> action])
  \/ \E bearer \in Bearers : cleanup_system(bearer)

SpecAccess == InitAccess /\ [][NextAccess]_vars

\* The step is a request to a "user"-tagged endpoint carrying the bearer.
UserEndpointRequest(bearer) ==
  LET a == resp'.args
  IN \/ resp'.op = "get_current_user_profile" /\ get_current_user_profile(bearer)
     \/ resp'.op = "upgrade" /\ upgrade(bearer)
     \/ resp'.op = "deactivate_account" /\ deactivate_account(bearer)
     \/ resp'.op = "toggle_favorite" /\ toggle_favorite(bearer, a.recipe_id)
     \/ resp'.op = "delete_recipe" /\ delete_recipe(bearer, a.recipe_id)
     \/ resp'.op = "create_dish" /\ create_dish(bearer, a)
     \/ resp'.op = "add_recipe" /\ add_recipe(bearer, a.dish_id, a.data)
     \/ resp'.op = "upload_photo" /\ upload_photo(bearer, a.recipe_id, a.photo)
     \/ resp'.op = "delete_photo" /\ delete_photo(bearer, a.recipe_id)
     \/ resp'.op = "get_step_audio"
          /\ \E generated \in BOOLEAN :
               get_step_audio(bearer, a.recipe_id, a.step_number, generated)
     \/ resp'.op = "generate_recipe_tts" /\ generate_recipe_tts(bearer, a.recipe_id)
     \/ resp'.op = "get_tts_status" /\ get_tts_status(bearer, a.recipe_id)
     \/ resp'.op = "delete_recipe_tts" /\ delete_recipe_tts(bearer, a.recipe_id)
     \/ resp'.op = "track_activity" /\ track_activity(bearer, a)
     \/ resp'.op = "start_cooking_session" /\ start_cooking_session(bearer, a)

\* The step is a request to an "admin"-tagged endpoint carrying the bearer.
AdminEndpointRequest(bearer) ==
  LET a == resp'.args
  IN \/ resp'.op = "get_user_by_id" /\ get_user_by_id(bearer, a.user_id)
     \/ resp'.op = "toggle_user_premium" /\ toggle_user_premium(bearer, a.user_id)
     \/ resp'.op = "toggle_user_active" /\ toggle_user_active(bearer, a.user_id)
     \/ resp'.op = "bulk_user_action" /\ bulk_user_action(bearer, a)
     \/ resp'.op = "cleanup_system" /\ cleanup_system(bearer)

(***************************************************************************)
(* C1.  A request to a "user"- or "admin"-tagged endpoint that carries no  *)
(* bearer token, or a token that fails verification, is answered 401 and   *)
(* changes no row and no file; a request to an "admin"-tagged endpoint     *)
(* authenticated as a user whose is_admin is false is answered 403 and     *)
(* changes no row and no file.                                             *)
(***************************************************************************)
\* The bearer is refused by get_current_user.
Unauthenticated(bearer) == get_current_user(bearer).status # 200

\* The bearer authenticates a user whose is_admin is false.
AuthenticatedNoAdmin(bearer) ==
  LET auth == get_current_user(bearer)
  IN auth.status = 200 /\ ~users[auth.user_id].is_admin

\* Each conjunct is an implication "the step is such a request => answer
\* and frame", written with the consequent first.
C1_AccessControl ==
  [][/\ \/ resp'.status = 401 /\ UNCHANGED <<dbVars, fileVars>>
        \/ ~\E bearer \in Bearers :
              /\ Unauthenticated(bearer)
              /\ UserEndpointRequest(bearer) \/ AdminEndpointRequest(bearer)
     /\ \/ resp'.status = 403 /\ UNCHANGED <<dbVars, fileVars>>
        \/ ~\E bearer \in Bearers :
              /\ AuthenticatedNoAdmin(bearer)
              /\ AdminEndpointRequest(bearer)]_vars

\* Toggle-active for an active user was asked by a user who is no
\* administrator and answered 403; the user is still active.
C1_WitnessForbidden ==
  /\ resp.op = "toggle_user_active"
  /\ resp.status = 403
  /\ resp.args.user_id \in DOMAIN users
  /\ users[resp.args.user_id].is_active

\* Delete recipe was asked with a token that fails verification and answered
\* 401; the recipe is still there.
C1_Witness ==
  /\ resp.op = "delete_recipe"
  /\ resp.status = 401
  /\ resp.detail # "Not authenticated"
  /\ \E r \in recipes : r.id = resp.args.recipe_id

(***************************************************************************)
(* app/routers/suggestions.py.  min_match and match_percent are counted in *)
(* hundredths, so that the comparison score >= min_match and round(score,  *)
(* 2) are computed on the fraction.  A query without ORDER BY returns its  *)
(* rows in an order the database chooses.                                  *)
(***************************************************************************)
\* schemas/dish.py IngredientList; min_match: float = Query(0.3, ge=0.0, le=1.0)
IngredientListValid(data) == Len(data.ingredients) >= 1 /\ Len(data.ingredients) <= 20

MinMatchValid(min_match) == min_match >= 0 /\ min_match <= 100

\* {i.strip().lower() for i in ...}
InputNames(names) == {Lower(Strip(names[k])) : k \in DOMAIN names}

\* The names of a recipe's ingredients as they are stored.
RecipeIngredientNamesAsStored(recipe_id) ==
  {ingredients[ri.ingredient_id].name : ri \in {l \in recipe_ingredients : l.recipe_id = recipe_id}}

\* {ri.ingredient.name.lower() for ri in recipe_ingredients}
RecipeIngredientNames(recipe_id) ==
  {Lower(ingredients[ri.ingredient_id].name) :
     ri \in {l \in recipe_ingredients : l.recipe_id = recipe_id}}

\* db.query(Recipe).join(Dish).filter(Dish.user_id == user.id).all(), as ids
RecipeIdsOfUser(user) == {r.id : r \in {x \in recipes : dishes[x.dish_id].user_id = user}}

\* The orders in which a query can return the rows with the given ids.
QueryOrders(ids) ==
  {order \in [1..Cardinality(ids) -> ids] :
     \A i, j \in DOMAIN order : i # j => order[i] # order[j]}

\* round(a / b, 2) in hundredths (round half to even)
Round2(a, b) ==
  LET q == (100 * a) \div b
      r == (100 * a) % b
  IN IF 2 * r < b THEN q
     ELSE IF 2 * r > b THEN q + 1
     ELSE IF q % 2 = 0 THEN q ELSE q + 1

\* sorted(results, key=lambda x: -x["match_percent"]): a stable sort
RECURSIVE InsertByMatch(_, _)
InsertByMatch(item, sorted) ==
  IF sorted = <<>> THEN <<item>>
  ELSE IF sorted[Len(sorted)].match_percent >= item.match_percent
  THEN Append(sorted, item)
  ELSE Append(InsertByMatch(item, SubSeq(sorted, 1, Len(sorted) - 1)), sorted[Len(sorted)])

RECURSIVE SortedByMatch(_)
SortedByMatch(results) ==
  IF results = <<>> THEN <<>>
  ELSE InsertByMatch(results[Len(results)],
                     SortedByMatch(SubSeq(results, 1, Len(results) - 1)))

\* The loop of suggest_recipes over the rows in the order of the query.
SuggestionsIn(order, input_names, min_match) ==
  LET Matches(id) == Cardinality(RecipeIngredientNames(id) \cap input_names)
      Total(id) == Cardinality(RecipeIngredientNames(id))
      kept == SelectSeq(order, LAMBDA id :
                 /\ RecipeIngredientNames(id) # {}
                 /\ 100 * Matches(id) >= min_match * Total(id))
  IN [k \in DOMAIN kept |->
        [id |-> kept[k], match_percent |-> Round2(Matches(kept[k]), Total(kept[k]))]]

\* POST /dishes/recipes/suggest
suggest_recipes(bearer, data, min_match) ==
  LET args == [data |-> data, min_match |-> min_match]
      auth == get_current_user(bearer)
  IN IF auth.status # 200
     THEN Reject("suggest_recipes", args, auth)
     ELSE IF ~IngredientListValid(data) \/ ~MinMatchValid(min_match)
     THEN /\ resp' = Answer("suggest_recipes", args,
                            HTTPException(422, "Validation error", NoHeaders))
          /\ UNCHANGED <<dbVars, fileVars, envVars>>
     ELSE IF data.ingredients = <<>>
     THEN /\ resp' = Answer("suggest_recipes", args,
                            Success(200, [kind |-> "suggestions", items |-> <<>>]))
          /\ UNCHANGED <<dbVars, fileVars, envVars>>
     ELSE \E order \in QueryOrders(RecipeIdsOfUser(auth.user_id)) :
            /\ resp' = Answer("suggest_recipes", args,
                              Success(200, [kind |-> "suggestions",
                                            items |-> SortedByMatch(
                                              SuggestionsIn(order,
                                                InputNames(data.ingredients), min_match))]))
            /\ UNCHANGED <<dbVars, fileVars, envVars>>

\* GET /dishes/recipes/filter
filter_recipes_by_ingredients(bearer, names) ==
  LET args == [ingredients |-> names]
      auth == get_current_user(bearer)
      input_set == InputNames(names)
  IN IF auth.status # 200
     THEN Reject("filter_recipes_by_ingredients", args, auth)
     ELSE IF names = <<>>
     THEN \* ingredients: List[str] = Query(...) is required
          /\ resp' = Answer("filter_recipes_by_ingredients", args,
                            HTTPException(422, "Validation error", NoHeaders))
          /\ UNCHANGED <<dbVars, fileVars, envVars>>
     ELSE \E order \in QueryOrders(RecipeIdsOfUser(auth.user_id)) :
            /\ resp' = Answer("filter_recipes_by_ingredients", args,
                              Success(200, [kind |-> "recipes",
                                            items |-> SelectSeq(order, LAMBDA id :
                                              input_set \subseteq RecipeIngredientNames(id))]))
            /\ UNCHANGED <<dbVars, fileVars, envVars>>

(***************************************************************************)
(* Suggestions: the ingredients "Ab", "bo" and "ox"; user 1 owns recipe    *)
(* 1, with any of them, and recipe 2, with none, with "Ab" or with all     *)
(* three; user 2 owns recipe 3, with all three.  User 1 is logged in.      *)
(***************************************************************************)
Name_Ab == <<"A", "b">>
Name_bo == <<"b", "o">>
Name_ox == <<"o", "x">>

\* What a client types: "ab", " Bo " and "io" (no ingredient).
TypedNames == <<<<"a", "b">>, <<" ", "B", "o", " ">>, <<"i", "o">>>>

\* The input lists: every list of up to MaxTypedNames typed names, up to the
\* order of its items (both handlers make a set of the list).
TypedLists ==
  {[k \in DOMAIN pick |-> TypedNames[pick[k]]] :
     pick \in {p \in UNION {[1..n -> DOMAIN TypedNames] : n \in 0..MaxTypedNames} :
                 \A k \in 1..(Len(p) - 1) : p[k] <= p[k + 1]}}

MinMatchChoices == {0, 60, 70, 100}

\* The rows that link the recipe to the ingredients, with ids from first + 1 on.
SeedLinks(recipe_id, first, ingredient_ids) ==
  {[id |-> first + i, recipe_id |-> recipe_id, ingredient_id |-> i,
    amount |-> 1, unit |-> "pcs"] : i \in ingredient_ids}

InitSuggest ==
  /\ settings = DefaultSettings
  /\ now = 0
  /\ users = TwoUsers
  /\ dishes = <<[name |-> Text_ab, category |-> "first", user_id |-> 1],
                [name |-> Text_ab, category |-> "second", user_id |-> 2]>>
  /\ recipes = {SeedRecipe(1, 1), SeedRecipe(2, 1), SeedRecipe(3, 2)}
  /\ recipe_steps = {SeedStep(1, 1), SeedStep(2, 2), SeedStep(3, 3)}
  /\ ingredients = <<[name |-> Name_Ab, type |-> "other"], [name |-> Name_bo, type |-> "other"],
                     [name |-> Name_ox, type |-> "other"]>>
  /\ \E of1 \in SUBSET (1..3), of2 \in {{}, {1}, 1..3} :
       recipe_ingredients = SeedLinks(1, 0, of1) \cup SeedLinks(2, 3, of2)
                              \cup SeedLinks(3, 6, 1..3)
  /\ cooking_sessions = {}
  /\ user_activities = <<>>
  /\ id_seq = [recipes |-> 3, recipe_steps |-> 3, recipe_ingredients |-> 9,
               cooking_sessions |-> 0]
  /\ EmptyFiles
  /\ tokens = {LoginToken(1)}
  /\ db_faults = FALSE
  /\ cache_manager = NoCacheManager
  /\ in_flight = {}
  /\ resp = NoResponse

NextSuggest ==
  \/ \E t \in HeldTokens, names \in TypedLists, min_match \in MinMatchChoices :
       suggest_recipes(<<t>>, [ingredients |-> names], min_match)
  \/ \E t \in HeldTokens, names \in TypedLists :
       filter_recipes_by_ingredients(<<t>>, names)

SpecSuggest == InitSuggest /\ [][NextSuggest]_vars

\* A name lower-cased and trimmed.
Normalised(name) == Lower(Strip(name))

\* The ingredient names of the recipe, lower-cased and trimmed.
NormalisedNamesOf(recipe_id) ==
  {Normalised(ingredients[l.ingredient_id].name) :
     l \in {x \in recipe_ingredients : x.recipe_id = recipe_id}}

NormalisedInput(names) == {Normalised(names[k]) : k \in DOMAIN names}

\* The recipes of the user that have an ingredient and whose fraction of
\* ingredient names among the input names is at least min_match hundredths.
MatchingRecipes(user, names, min_match) ==
  {r.id : r \in {x \in recipes :
     /\ dishes[x.dish_id].user_id = user
     /\ NormalisedNamesOf(x.id) # {}
     /\ 100 * Cardinality(NormalisedNamesOf(x.id) \cap NormalisedInput(names))
          >= min_match * Cardinality(NormalisedNamesOf(x.id))}}

\* The answer lists exactly the given recipes, each once, by non-increasing match.
ListsByMatch(items, ids) ==
  /\ {items[k].id : k \in DOMAIN items} = ids
  /\ Len(items) = Cardinality(ids)
  /\ \A i, j \in DOMAIN items : i < j => items[i].match_percent >= items[j].match_percent

(***************************************************************************)
(* C11.  A suggest request with min_match in 0..1 is answered with exactly *)
(* the caller's recipes that have at least one ingredient and whose        *)
(* fraction of ingredient names found among the input names (both          *)
(* lower-cased and trimmed) is at least min_match, by non-increasing       *)
(* match; an empty input list is answered with an empty result.            *)
(***************************************************************************)
C11_SuggestResult ==
  [][\A t \in HeldTokens :
       LET a == resp'.args
       IN /\ resp'.op = "suggest_recipes"
          /\ suggest_recipes(<<t>>, a.data, a.min_match)
          /\ MinMatchValid(a.min_match)
          => /\ resp'.status = 200
             /\ IF a.data.ingredients = <<>>
                THEN resp'.data.items = <<>>
                ELSE ListsByMatch(resp'.data.items,
                                  MatchingRecipes(get_current_user(<<t>>).user_id,
                                                  a.data.ingredients, a.min_match))]_vars

\* The same for the requests whose input list is not empty.
C11_NonEmptyInput ==
  [][\A t \in HeldTokens :
       LET a == resp'.args
       IN /\ resp'.op = "suggest_recipes"
          /\ suggest_recipes(<<t>>, a.data, a.min_match)
          /\ MinMatchValid(a.min_match)
          /\ a.data.ingredients # <<>>
          => /\ resp'.status = 200
             /\ ListsByMatch(resp'.data.items,
                             MatchingRecipes(get_current_user(<<t>>).user_id,
                                             a.data.ingredients, a.min_match))]_vars

\* A suggest request with an empty input list was answered 422.
C11_Witness ==
  /\ resp.op = "suggest_recipes"
  /\ resp.args.data.ingredients = <<>>
  /\ resp.status = 422

\* Two of three ingredient names matched: listed at 0.6 with match 0.67.
C11_TwoThirdsListed ==
  /\ resp.op = "suggest_recipes"
  /\ resp.args.min_match = 60
  /\ resp.status = 200
  /\ \E k \in DOMAIN resp.data.items :
       /\ resp.data.items[k].match_percent = 67
       /\ Cardinality(NormalisedNamesOf(resp.data.items[k].id)) = 3

(***************************************************************************)
(* C12.  A filter request is answered with exactly the caller's recipes    *)
(* whose ingredient names contain every input name (both lower-cased and   *)
(* trimmed), each once; a recipe that lacks an input name and a recipe of  *)
(* another user are not in the answer.                                     *)
(***************************************************************************)
C12_FilterResult ==
  [][\A t \in HeldTokens :
       LET a == resp'.args
           user == get_current_user(<<t>>).user_id
           items == resp'.data.items
       IN /\ resp'.op = "filter_recipes_by_ingredients"
          /\ filter_recipes_by_ingredients(<<t>>, a.ingredients)
          /\ a.ingredients # <<>>
          => /\ resp'.status = 200
             /\ {items[k] : k \in DOMAIN items}
                  = {r.id : r \in {x \in recipes :
                       /\ dishes[x.dish_id].user_id = user
                       /\ NormalisedInput(a.ingredients) \subseteq NormalisedNamesOf(x.id)}}
             /\ \A i, j \in DOMAIN items : i # j => items[i] # items[j]]_vars

\* A filter for "ab" and " Bo " returned a recipe of the caller and left out
\* another recipe of the caller, while another user's recipe has both.
C12_Witness ==
  /\ resp.op = "filter_recipes_by_ingredients"
  /\ NormalisedInput(resp.args.ingredients) = {<<"a", "b">>, <<"b", "o">>}
  /\ resp.status = 200
  /\ Len(resp.data.items) = 1
  /\ \E r \in recipes : /\ dishes[r.dish_id].user_id = 1
                        /\ r.id \notin {resp.data.items[k] : k \in DOMAIN resp.data.items}
  /\ \E r \in recipes : /\ dishes[r.dish_id].user_id = 2
                        /\ {<<"a", "b">>, <<"b", "o">>} \subseteq NormalisedNamesOf(r.id)

(***************************************************************************)
(* app/routers/analytics.py: cooking sessions over the days, and the       *)
(* dashboard.  A date is the number of the day since the epoch.            *)
(***************************************************************************)
\* datetime.date(), func.date(...)
DateOf(instant) == instant \div SECONDS_PER_DAY

SessionNotFound == HTTPException(404, "Cooking session not found", NoHeaders)

\* schemas/analytics.py CookingSessionUpdate: a field that is None is absent.
CookingSessionUpdateValid(session_update) ==
  /\ "notes" \in DOMAIN session_update
       => Len(session_update.notes) <= NOTES_MAX_LENGTH
  /\ "rating" \in DOMAIN session_update
       => session_update.rating >= 1 /\ session_update.rating <= 5

\* The UserActivity rows an update adds: one for a supplied current_step, one
\* for any supplied is_completed, true or false.
SessionEventsForAnyFlag(user, cooking_session, session_update) ==
  (IF "current_step" \in DOMAIN session_update
   THEN <<[user_id |-> user, recipe_id |-> cooking_session.recipe_id,
           activity_type |-> "step_completed"]>>
   ELSE <<>>)
  \o (IF "is_completed" \in DOMAIN session_update
      THEN <<[user_id |-> user, recipe_id |-> cooking_session.recipe_id,
              activity_type |-> "complete_cooking"]>>
      ELSE <<>>)

\* The UserActivity rows update_cooking_session adds, in the order of db.add.
SessionEvents(user, cooking_session, session_update) ==
  (IF "current_step" \in DOMAIN session_update
   THEN <<[user_id |-> user, recipe_id |-> cooking_session.recipe_id,
           activity_type |-> "step_completed"]>>
   ELSE <<>>)
  \o (IF "is_completed" \in DOMAIN session_update /\ session_update.is_completed
      THEN <<[user_id |-> user, recipe_id |-> cooking_session.recipe_id,
              activity_type |-> "complete_cooking"]>>
      ELSE <<>>)

\* PUT /analytics/cooking-sessions/{session_id}
update_cooking_session(bearer, session_id, session_update) ==
  LET args == [session_id |-> session_id, session_update |-> session_update]
      auth == get_current_user(bearer)
      user == auth.user_id
      found == {c \in cooking_sessions : c.id = session_id /\ c.user_id = user}
      cooking_session == CHOOSE c \in found : TRUE
      Has(field) == field \in DOMAIN session_update
      completes == Has("is_completed") /\ session_update.is_completed
      stepped == IF Has("current_step")
                 THEN [cooking_session EXCEPT !.current_step = session_update.current_step]
                 ELSE cooking_session
      completed == IF Has("is_completed")
                   THEN [stepped EXCEPT !.is_completed = session_update.is_completed,
                                        !.completed_at = IF completes THEN now ELSE @]
                   ELSE stepped
      noted == IF Has("notes") THEN [completed EXCEPT !.notes = session_update.notes]
               ELSE completed
      rated == IF Has("rating") THEN [noted EXCEPT !.rating = session_update.rating]
               ELSE noted
      events == SessionEvents(user, cooking_session, session_update)
  IN IF auth.status # 200
     THEN Reject("update_cooking_session", args, auth)
     ELSE IF ~CookingSessionUpdateValid(session_update)
     THEN /\ resp' = Answer("update_cooking_session", args,
                            HTTPException(422, "Validation error", NoHeaders))
          /\ UNCHANGED <<dbVars, fileVars, envVars>>
     ELSE IF found = {}
     THEN /\ resp' = Answer("update_cooking_session", args, SessionNotFound)
          /\ UNCHANGED <<dbVars, fileVars, envVars>>
     ELSE \E fault \in DatabaseFaults \ {"flush"} :
          /\ UNCHANGED <<users, dishes, recipes, recipe_steps, recipe_ingredients,
                         ingredients, id_seq>>
          /\ UNCHANGED <<fileVars, envVars>>
          /\ IF fault = "commit"
             THEN /\ resp' = Answer("update_cooking_session", args,
                        HTTPException(500, "Error updating cooking session", NoHeaders))
                  /\ UNCHANGED <<cooking_sessions, user_activities>>
             ELSE /\ cooking_sessions' = (cooking_sessions \ {cooking_session}) \cup {rated}
                  /\ user_activities' = user_activities \o events
                  /\ resp' = Answer("update_cooking_session", args,
                        IF fault = "refresh"
                        THEN HTTPException(500, "Error updating cooking session", NoHeaders)
                        ELSE Success(200, [kind |-> "cooking_session", id |-> session_id,
                                           is_completed |-> rated.is_completed,
                                           current_step |-> rated.current_step]))

\* The count of the query inside the loop of the dashboard: the completed
\* sessions of the user that started on the date.
CompletedOn(user, check_date) ==
  Cardinality({c \in cooking_sessions :
                 /\ c.user_id = user
                 /\ DateOf(c.started_at) = check_date
                 /\ c.is_completed})

\* A loop that counts the days with a completed session and never breaks.
RECURSIVE StreakLoopCountingDays(_, _, _, _)
StreakLoopCountingDays(user, today, days_back, cooking_streak) ==
  IF days_back >= STREAK_DAYS THEN cooking_streak
  ELSE StreakLoopCountingDays(user, today, days_back + 1,
         IF CompletedOn(user, today - days_back) > 0
         THEN cooking_streak + 1 ELSE cooking_streak)

\* for days_back in range(7): ... from days_back on, with the streak so far
RECURSIVE StreakLoop(_, _, _, _)
StreakLoop(user, today, days_back, cooking_streak) ==
  IF days_back >= STREAK_DAYS THEN cooking_streak
  ELSE IF CompletedOn(user, today - days_back) > 0
  THEN IF days_back = cooking_streak
       THEN StreakLoop(user, today, days_back + 1, cooking_streak + 1)
       ELSE cooking_streak
  ELSE IF days_back = 0 THEN cooking_streak
  ELSE IF days_back = cooking_streak THEN cooking_streak
  ELSE StreakLoop(user, today, days_back + 1, cooking_streak)

\* GET /analytics/dashboard
get_personalized_dashboard(bearer) ==
  LET auth == get_current_user(bearer)
      user == auth.user_id
      cooking_streak == StreakLoop(user, DateOf(now), 0, 0)
      week_ago == now - STREAK_DAYS * SECONDS_PER_DAY
      recipes_cooked == Cardinality({c \in cooking_sessions :
                                       /\ c.user_id = user
                                       /\ c.started_at >= week_ago
                                       /\ c.is_completed})
  IN IF auth.status # 200
     THEN Reject("get_personalized_dashboard", NoArgs, auth)
     ELSE /\ resp' = Answer("get_personalized_dashboard", NoArgs,
                Success(200, [kind |-> "dashboard", cooking_streak |-> cooking_streak,
                              streak_achievement |-> cooking_streak >= 3,
                              recipes_cooked |-> recipes_cooked]))
          /\ UNCHANGED <<dbVars, fileVars, envVars>>

(***************************************************************************)
(* The streak: today is day MaxDaysBack.  User 1 has a completed session   *)
(* on any set of the days 0..MaxDaysBack, user 2 has one on every day.     *)
(* User 1 is logged in, starts sessions today, updates them (and tries to  *)
(* update a session of user 2) and reads the dashboard.                    *)
(***************************************************************************)
Days == 0..MaxDaysBack

SeedSession(id, user_id, recipe_id, day) ==
  [id |-> id, user_id |-> user_id, recipe_id |-> recipe_id, is_completed |-> TRUE,
   current_step |-> 1, total_steps |-> 1, started_at |-> day * SECONDS_PER_DAY + 3600,
   completed_at |-> day * SECONDS_PER_DAY + 7200, notes |-> None, rating |-> None]

SeededSessions == 2 * (MaxDaysBack + 1)

SessionUpdates ==
  {[is_completed |-> TRUE], [current_step |-> 2, is_completed |-> FALSE], [rating |-> 6]}

InitStreak ==
  /\ settings = DefaultSettings
  /\ now = MaxDaysBack * SECONDS_PER_DAY + 9000
  /\ users = TwoUsers
  /\ dishes = <<[name |-> Text_ab, category |-> "first", user_id |-> 1],
                [name |-> Text_ab, category |-> "second", user_id |-> 2]>>
  /\ recipes = {SeedRecipe(1, 1), SeedRecipe(2, 2)}
  /\ recipe_steps = {SeedStep(1, 1), SeedStep(2, 2)}
  /\ recipe_ingredients = {}
  /\ ingredients = <<>>
  /\ \E cooked \in SUBSET Days :
       cooking_sessions = {SeedSession(d + 1, 1, 1, d) : d \in cooked}
                            \cup {SeedSession(MaxDaysBack + d + 2, 2, 2, d) : d \in Days}
  /\ user_activities = <<>>
  /\ id_seq = [recipes |-> 2, recipe_steps |-> 2, recipe_ingredients |-> 0,
               cooking_sessions |-> SeededSessions]
  /\ EmptyFiles
  /\ tokens = {[access_token |-> create_access_token([sub |-> IntToStr(1)], LoginExpiresDelta),
                claims |-> [sub |-> IntToStr(1)], login_of |-> 1]}
  /\ db_faults = FALSE
  /\ cache_manager = NoCacheManager
  /\ in_flight = {}
  /\ resp = NoResponse

NextStreak ==
  \/ \E t \in HeldTokens : get_personalized_dashboard(<<t>>)
  \/ \E t \in HeldTokens :
       /\ start_cooking_session(<<t>>, [recipe_id |-> 1, total_steps |-> 2])
       /\ Len(user_activities') <= MaxSessionEvents
  \/ \E t \in HeldTokens, c \in cooking_sessions, session_update \in SessionUpdates :
       /\ c.id >= SeededSessions
       /\ update_cooking_session(<<t>>, c.id, session_update)
       /\ Len(user_activities') <= MaxSessionEvents

SpecStreak == InitStreak /\ [][NextStreak]_vars

\* The user has a completed session that was started on the date.
CookedOn(user, date) ==
  \E c \in cooking_sessions :
    c.user_id = user /\ c.is_completed /\ DateOf(c.started_at) = date

\* The largest k in 0..7 such that each of the k days up to today is cooked on.
StreakOf(user, today) ==
  LET runs == {k \in 0..STREAK_DAYS : \A i \in 0..(k - 1) : CookedOn(user, today - i)}
  IN CHOOSE k \in runs : \A other \in runs : other <= k

(***************************************************************************)
(* C13.  The cooking_streak of the dashboard is the largest k in 0..7 such *)
(* that each of the days today, today-1, ..., today-(k-1) has a completed  *)
(* cooking session of the caller, counted for the day it was started; it   *)
(* is 0 whenever today has none.                                           *)
(***************************************************************************)
C13_CookingStreak ==
  [][\A t \in HeldTokens :
       LET user == get_current_user(<<t>>).user_id
       IN resp'.op = "get_personalized_dashboard" /\ get_personalized_dashboard(<<t>>)
          => /\ resp'.status = 200
             /\ resp'.data.cooking_streak = StreakOf(user, DateOf(now))
             /\ ~CookedOn(user, DateOf(now)) => resp'.data.cooking_streak = 0]_vars

\* The dashboard reported a streak of 2: sessions today and yesterday, none
\* the day before, and one on an earlier day.
C13_Witness ==
  /\ resp.op = "get_personalized_dashboard"
  /\ resp.status = 200
  /\ resp.data.cooking_streak = 2
  /\ ~CookedOn(1, DateOf(now) - 2)
  /\ CookedOn(1, DateOf(now) - 3)

(***************************************************************************)
(* The TTS cache: user 1 owns recipe 1 (two steps) and recipe 12 (one      *)
(* step), user 2 owns recipe 2.  User 1 asks for step audio, generates,    *)
(* reads the status, purges the cache and deletes recipes.                 *)
(***************************************************************************)
TtsRecipeIds == {1, 2, 12}

InitTts ==
  /\ settings = DefaultSettings
  /\ now = 0
  /\ users = TwoUsers
  /\ dishes = <<[name |-> Text_ab, category |-> "first", user_id |-> 1],
                [name |-> Text_ab, category |-> "second", user_id |-> 2]>>
  /\ recipes = {SeedRecipe(1, 1), SeedRecipe(2, 2), SeedRecipe(12, 1)}
  /\ recipe_steps = {SeedStep(1, 1), SeedStep(2, 1), SeedStep(3, 12), SeedStep(4, 2)}
  /\ recipe_ingredients = {}
  /\ ingredients = <<>>
  /\ cooking_sessions = {}
  /\ user_activities = <<>>
  /\ id_seq = [recipes |-> 12, recipe_steps |-> 4, recipe_ingredients |-> 0,
               cooking_sessions |-> 0]
  /\ EmptyFiles
  /\ tokens = {LoginToken(1)}
  /\ db_faults = FALSE
  /\ cache_manager = NoCacheManager
  /\ in_flight = {}
  /\ resp = NoResponse

NextTts ==
  \/ \E t \in HeldTokens, id \in TtsRecipeIds, n \in 1..2, generated \in BOOLEAN :
       get_step_audio(<<t>>, id, n, generated)
  \/ \E t \in HeldTokens, id \in TtsRecipeIds : generate_recipe_tts(<<t>>, id)
  \/ \E t \in HeldTokens, id \in TtsRecipeIds : get_tts_status(<<t>>, id)
  \/ \E t \in HeldTokens, id \in TtsRecipeIds : delete_recipe_tts(<<t>>, id)
  \/ \E t \in HeldTokens, id \in TtsRecipeIds : delete_recipe(<<t>>, id)
  \/ \E generated \in BOOLEAN : RunBackgroundTask(generated)

SpecTts == InitTts /\ [][NextTts]_vars

\* The files among `files` that were generated for a step of the recipe: the
\* digested string ends with the voice id of one of its steps.
GeneratedFor(files, recipe_id) ==
  {f \in files :
     \E n \in 1..9 :
       LET voice == <<"_">> \o VoiceId(recipe_id, n)
       IN /\ Len(voice) <= Len(f.md5_of)
          /\ SubSeq(f.md5_of, Len(f.md5_of) - Len(voice) + 1, Len(f.md5_of)) = voice}

\* The step is a purge of the recipe's cache that succeeded: DELETE
\* /recipes/{id}/tts, or DELETE /recipes/{id}.
PurgeOf(t, recipe_id) ==
  /\ resp'.status = 200
  /\ resp'.args = [recipe_id |-> recipe_id]
  /\ \/ resp'.op = "delete_recipe_tts" /\ delete_recipe_tts(<<t>>, recipe_id)
     \/ resp'.op = "delete_recipe" /\ delete_recipe(<<t>>, recipe_id)

(***************************************************************************)
(* C14.  After a recipe is deleted, and after DELETE /recipes/{id}/tts     *)
(* succeeds, no cache file generated for a step of that recipe remains,    *)
(* and the count the purge returns is the number of that recipe's cache    *)
(* files that existed before it.                                           *)
(***************************************************************************)
C14_PurgeLeavesNothing ==
  [][\A t \in HeldTokens, id \in TtsRecipeIds :
       PurgeOf(t, id)
       => /\ GeneratedFor(tts_files', id) = {}
          /\ resp'.op = "delete_recipe_tts"
             => resp'.data.deleted_files = Cardinality(GeneratedFor(tts_files, id))]_vars

\* DELETE /recipes/1/tts answered 200 with a count of 0, both files of
\* recipe 1 are in the cache and no generation is pending.
C14_Witness ==
  /\ resp.op = "delete_recipe_tts"
  /\ resp.status = 200
  /\ resp.args.recipe_id = 1
  /\ resp.data.deleted_files = 0
  /\ Cardinality(GeneratedFor(tts_files, 1)) = 2
  /\ background_tasks = {}

(***************************************************************************)
(* C15.  Purging the TTS cache of recipe R, directly or by deleting R,     *)
(* never removes a cache file generated for a step of another recipe id,   *)
(* an id that has R's digits as a prefix included (1 and 12).              *)
(***************************************************************************)
C15_PurgeKeepsOtherRecipes ==
  [][\A t \in HeldTokens, id \in TtsRecipeIds :
       PurgeOf(t, id)
       => \A other \in TtsRecipeIds \ {id} :
            GeneratedFor(tts_files, other) \subseteq tts_files']_vars

\* Recipe 1 was deleted while the cache held a file of recipe 12, which is
\* still there.
C15_Witness ==
  /\ resp.op = "delete_recipe"
  /\ resp.status = 200
  /\ resp.args.recipe_id = 1
  /\ GeneratedFor(tts_files, 12) # {}
  /\ \A r \in recipes : r.id # 1

(***************************************************************************)
(* get_tts_cache_path as a function: it is called with every text and      *)
(* every voice of up to MaxStrLen characters among "a", "b" and "_".       *)
(***************************************************************************)
CacheStrings == UNION {[1..n -> {"a", "b", "_"}] : n \in 0..MaxStrLen}

NextCachePath ==
  \E text \in CacheStrings, voice \in CacheStrings :
    /\ resp' = Answer("get_tts_cache_path", [text |-> text, voice |-> voice],
                      Success(200, [kind |-> "path", path |-> get_tts_cache_path(text, voice)]))
    /\ UNCHANGED <<dbVars, fileVars, envVars>>

SpecCachePath == InitTts /\ [][NextCachePath]_vars

(***************************************************************************)
(* C16.  The cache path depends only on (text, voice): two calls with the  *)
(* same text and voice return the same path, and two calls that differ in  *)
(* the text or in the voice return different paths.                        *)
(***************************************************************************)
C16_PathDeterminedAndInjective ==
  [][resp.op = "get_tts_cache_path" /\ resp'.op = "get_tts_cache_path"
     => (resp.data.path = resp'.data.path <=> resp.args = resp'.args)]_vars

\* What holds: equal arguments give equal paths, and two calls that differ in
\* one argument only give different paths.
C16_OneArgumentChanged ==
  [][resp.op = "get_tts_cache_path" /\ resp'.op = "get_tts_cache_path"
     => /\ resp.args = resp'.args => resp.data.path = resp'.data.path
        /\ (resp.args # resp'.args
            /\ (resp.args.text = resp'.args.text \/ resp.args.voice = resp'.args.voice))
           => resp.data.path # resp'.data.path]_vars

\* The path of the text "a" with the voice "_b", which is also the path of
\* the text "a_" with the voice "b".
C16_Witness ==
  /\ resp.op = "get_tts_cache_path"
  /\ resp.args = [text |-> <<"a">>, voice |-> <<"_", "b">>]
  /\ resp.data.path = get_tts_cache_path(<<"a", "_">>, <<"b">>)

(***************************************************************************)
(* app/routers/users.py get_all_users, app/routers/admin.py                *)
(* get_users_admin: the paginated listings of users                        *)
(***************************************************************************)
\* pages = total // size, rounded down
PageCountRoundedDown(total, size) == total \div size

\* pages = (total + size - 1) // size
PageCount(total, size) == (total + size - 1) \div size

\* The filters is_premium, is_active and is_admin, each applied when given;
\* search, created_after and created_before are not given.
FilteredUsers(filters) ==
  {id \in DOMAIN users :
     /\ "is_premium" \in DOMAIN filters => users[id].is_premium = filters.is_premium
     /\ "is_active" \in DOMAIN filters => users[id].is_active = filters.is_active
     /\ "is_admin" \in DOMAIN filters => users[id].is_admin = filters.is_admin}

\* query.offset((page - 1) * size).limit(size).all() and the response built
\* from it.  The rows come in an order the database chooses (get_all_users
\* gives none; sort_by and sort_order of get_users_admin change the items, not
\* the counts).
PaginatedUsers(op, bearer, page, size, filters) ==
  LET auth == get_current_admin_user(bearer)
      args == [page |-> page, size |-> size, filters |-> filters]
      rows == FilteredUsers(filters)
      total == Cardinality(rows)
      offset == (page - 1) * size
      pages == PageCount(total, size)
  IN IF auth.status # 200
     THEN Reject(op, args, auth)
     ELSE IF page < 1 \/ size < 1 \/ size > MAX_PAGE_SIZE
     THEN /\ resp' = Answer(op, args, HTTPException(422, "Validation error", NoHeaders))
          /\ UNCHANGED <<dbVars, fileVars, envVars>>
     ELSE /\ \E order \in QueryOrders(rows) :
               resp' = Answer(op, args,
                 Success(200, [kind |-> "page",
                               items |-> SubSeq(order, offset + 1,
                                                IF offset + size < total
                                                THEN offset + size ELSE total),
                               total |-> total, page |-> page, size |-> size,
                               pages |-> pages, has_next |-> page < pages,
                               has_prev |-> page > 1]))
          /\ UNCHANGED <<dbVars, fileVars, envVars>>

\* GET /users/ : no is_admin filter
get_all_users(bearer, page, size, filters) ==
  /\ "is_admin" \notin DOMAIN filters
  /\ PaginatedUsers("get_all_users", bearer, page, size, filters)

\* GET /admin/users
get_users_admin(bearer, page, size, filters) ==
  PaginatedUsers("get_users_admin", bearer, page, size, filters)

(***************************************************************************)
(* The listings: three users, the first an administrator who is logged    *)
(* in, lists the users page by page and changes who is premium.           *)
(***************************************************************************)
PageSizes == {0, 1, 2, MAX_PAGE_SIZE, MAX_PAGE_SIZE + 1}

UserFilters ==
  {NoArgs, [is_premium |-> TRUE, is_active |-> TRUE], [is_admin |-> FALSE]}

NextListing ==
  \/ \E t \in HeldTokens, page \in 0..MaxPage, size \in PageSizes, filters \in UserFilters :
       get_all_users(<<t>>, page, size, filters)
  \/ \E t \in HeldTokens, page \in 0..MaxPage, size \in PageSizes, filters \in UserFilters :
       get_users_admin(<<t>>, page, size, filters)
  \/ \E t \in HeldTokens, id \in {2, 3} : toggle_user_premium(<<t>>, id)

SpecListing == InitAdmin /\ [][NextListing]_vars

\* The least k with k * size >= total.
Ceiling(total, size) ==
  CHOOSE k \in 0..total : k * size >= total /\ \A j \in 0..(k - 1) : j * size < total

(***************************************************************************)
(* C17.  For every total >= 0, size in 1..100 and page >= 1 the paginated  *)
(* user listings answer with pages = ceil(total / size), has_next = (page  *)
(* < pages), has_prev = (page > 1) and at most size items; has_prev is     *)
(* false on page 1, has_next is false on the last page and beyond it.      *)
(***************************************************************************)
C17_Pagination ==
  [][\A t \in HeldTokens :
       LET a == resp'.args
           d == resp'.data
       IN (\/ resp'.op = "get_all_users"
              /\ get_all_users(<<t>>, a.page, a.size, a.filters)
           \/ resp'.op = "get_users_admin"
              /\ get_users_admin(<<t>>, a.page, a.size, a.filters))
          /\ a.page >= 1 /\ a.size \in 1..MAX_PAGE_SIZE
          => /\ resp'.status = 200
             /\ d.total = Cardinality(FilteredUsers(a.filters))
             /\ d.pages = Ceiling(d.total, a.size)
             /\ d.has_next = (a.page < d.pages)
             /\ d.has_prev = (a.page > 1)
             /\ Len(d.items) <= a.size
             /\ a.page = 1 => ~d.has_prev
             /\ a.page >= d.pages => ~d.has_next]_vars

\* The second of two pages of size 2 over three users: one item, a page
\* before it and none after it.
C17_Witness ==
  /\ resp.op = "get_all_users"
  /\ resp.status = 200
  /\ resp.args.page = 2 /\ resp.args.size = 2
  /\ resp.data.total = 3 /\ resp.data.pages = 2
  /\ Len(resp.data.items) = 1
  /\ resp.data.has_prev /\ ~resp.data.has_next

\* A page beyond the last one, and a listing of no user at all.
C17_WitnessBeyond ==
  /\ resp.op = "get_users_admin"
  /\ resp.status = 200
  /\ resp.args.page > resp.data.pages
  /\ resp.data.total = 0
  /\ resp.data.items = <<>>
  /\ ~resp.data.has_next

(***************************************************************************)
(* app/routers/users.py change_password                                    *)
(***************************************************************************)
\* POST /users/me/change-password
change_password(bearer, password_data) ==
  LET args == [password_data |-> password_data]
      auth == get_current_user(bearer)
      user_id == auth.user_id
  IN IF auth.status # 200
     THEN Reject("change_password", args, auth)
     ELSE IF ~PasswordFieldValid(password_data.new_password)
     THEN /\ resp' = Answer("change_password", args,
                            HTTPException(422, "Validation error", NoHeaders))
          /\ UNCHANGED <<dbVars, fileVars, envVars>>
     ELSE IF ~verify_password(password_data.current_password, users[user_id].hashed_password)
     THEN /\ resp' = Answer("change_password", args,
                            HTTPException(400, "Wrong current password", NoHeaders))
          /\ UNCHANGED <<dbVars, fileVars, envVars>>
     ELSE /\ users' = [users EXCEPT
                         ![user_id].hashed_password = hash_password(password_data.new_password)]
          /\ resp' = Answer("change_password", args,
                            Success(200, [kind |-> "message",
                                          message |-> "Password changed successfully"]))
          /\ UNCHANGED <<dishes, recipes, recipe_steps, recipe_ingredients, ingredients,
                         cooking_sessions, user_activities, id_seq>>
          /\ UNCHANGED <<fileVars, envVars>>

(***************************************************************************)
(* Passwords: two accounts exist, the first is logged in.  A third         *)
(* account is registered and the first changes its password, with          *)
(* passwords on both sides of every rule.                                  *)
(***************************************************************************)
\* n characters, letters and digits in turn
LongPassword(n) == [i \in 1..n |-> IF i % 2 = 1 THEN "a" ELSE "1"]

TypedPasswords ==
  {LongPassword(PASSWORD_MIN_LENGTH - 1), LongPassword(PASSWORD_MIN_LENGTH),
   LongPassword(PASSWORD_MAX_LENGTH), LongPassword(PASSWORD_MAX_LENGTH + 1),
   [i \in 1..PASSWORD_MIN_LENGTH |-> "a"], [i \in 1..PASSWORD_MIN_LENGTH |-> "1"],
   [i \in 1..PASSWORD_MIN_LENGTH |-> " "]}

Email_x == <<"x", "@", "x", ".", "i", "o">>

InitPasswords ==
  /\ settings = DefaultSettings
  /\ now = 0
  /\ users = TwoUsers
  /\ EmptyTables
  /\ EmptyFiles
  /\ tokens = {LoginToken(1)}
  /\ db_faults = FALSE
  /\ cache_manager = NoCacheManager
  /\ in_flight = {}
  /\ resp = NoResponse

NextPasswords ==
  \/ \E e \in {Email_a, Email_x}, p \in TypedPasswords :
       /\ register(e, p)
       /\ Len(users') <= Len(TwoUsers) + MaxNewUsers
  \/ \E t \in HeldTokens, current \in {Password_1, LongPassword(PASSWORD_MIN_LENGTH)},
        new \in TypedPasswords :
       change_password(<<t>>, [current_password |-> current, new_password |-> new])

SpecPasswords == InitPasswords /\ [][NextPasswords]_vars

\* 8 to 128 characters, a letter and a digit among them.
PasswordPolicy(password) ==
  /\ Len(password) \in PASSWORD_MIN_LENGTH..PASSWORD_MAX_LENGTH
  /\ \E i \in DOMAIN password : IsLetter(password[i])
  /\ \E i \in DOMAIN password : IsDigit(password[i])

(***************************************************************************)
(* C18.  Registration, and the new password of change-password, accept a   *)
(* password only if it has 8 to 128 characters, a letter and a digit among *)
(* them; any other password is answered 422, no account is created and no  *)
(* stored hash is changed.                                                 *)
(***************************************************************************)
C18_PasswordPolicy ==
  [][/\ \A e \in {Email_a, Email_x} :
          resp'.op = "register" /\ register(e, resp'.args.password)
          /\ ~PasswordPolicy(resp'.args.password)
          => resp'.status = 422 /\ users' = users
     /\ \A t \in HeldTokens :
          resp'.op = "change_password" /\ change_password(<<t>>, resp'.args.password_data)
          /\ ~PasswordPolicy(resp'.args.password_data.new_password)
          => resp'.status = 422 /\ users' = users]_vars

\* What holds: a password of fewer than 8 or more than 128 characters is
\* answered 422 and changes no row.
C18_LengthEnforced ==
  [][/\ \A e \in {Email_a, Email_x} :
          resp'.op = "register" /\ register(e, resp'.args.password)
          /\ Len(resp'.args.password) \notin PASSWORD_MIN_LENGTH..PASSWORD_MAX_LENGTH
          => resp'.status = 422 /\ users' = users
     /\ \A t \in HeldTokens :
          resp'.op = "change_password" /\ change_password(<<t>>, resp'.args.password_data)
          /\ Len(resp'.args.password_data.new_password)
               \notin PASSWORD_MIN_LENGTH..PASSWORD_MAX_LENGTH
          => resp'.status = 422 /\ users' = users]_vars

\* An account was registered with a password of eight letters and no digit,
\* and the stored hash is the hash of that password.
C18_Witness ==
  /\ resp.op = "register"
  /\ resp.status = 201
  /\ ~validate_password(resp.args.password)
  /\ users[resp.data.id].hashed_password = hash_password(resp.args.password)

(***************************************************************************)
(* app/database/transactions.py retry_transaction.  A run of the wrapper   *)
(* is kept in resp: its arguments, the outcomes of the calls of the        *)
(* wrapped function so far, the last retryable error, and how it ended.    *)
(***************************************************************************)
\* if attempt == max_retries - 1: break
LastAttempt(attempt, max_retries) == attempt = max_retries - 1

\* The default text, whatever error_msg is.
OrDefaultAlways(error_msg, default) == default

\* error_msg or default: None and "" are both false
OrDefault(error_msg, default) == IF error_msg # "" THEN error_msg ELSE default

RetryRun(state, args, calls, last_error, r) ==
  [Answer("retry_transaction", args, r) EXCEPT
     !.data = [kind |-> state, calls |-> calls, last_error |-> last_error,
               result |-> r.data]]

\* wrapper(*args, **kwargs) is entered: last_error = None, no call yet
retry_wrapper_enter(max_retries, error_msg) ==
  /\ resp' = RetryRun("running", [max_retries |-> max_retries, error_msg |-> error_msg],
                      <<>>, "", Success(0, NoData))
  /\ UNCHANGED <<dbVars, fileVars, envVars>>

\* One pass of the loop: func is called and returns, raises an exception of
\* retry_on, or raises another exception.
retry_wrapper_attempt(outcome) ==
  LET args == resp.args
      attempt == Len(resp.data.calls)
      calls == Append(resp.data.calls, outcome)
  IN /\ resp.op = "retry_transaction"
     /\ resp.data.kind = "running"
     /\ UNCHANGED <<dbVars, fileVars, envVars>>
     /\ IF outcome.kind = "returns"
        THEN resp' = RetryRun("returned", args, calls, resp.data.last_error,
                              Success(200, [kind |-> "value", value |-> outcome.text]))
        ELSE IF outcome.kind = "retryable"
        THEN IF LastAttempt(attempt, args.max_retries)
                \/ attempt + 1 \notin 0..(args.max_retries - 1)
             THEN resp' = RetryRun("raised", args, calls, outcome.text,
                    HTTPException(500,
                      OrDefault(args.error_msg,
                                "Transaction failed after " \o ToString(args.max_retries)
                                  \o " attempts: " \o outcome.text),
                      NoHeaders))
             ELSE resp' = RetryRun("running", args, calls, outcome.text, Success(0, NoData))
        ELSE resp' = RetryRun("raised", args, calls, resp.data.last_error,
                       HTTPException(500, OrDefault(args.error_msg, outcome.text), NoHeaders))

FuncOutcomes ==
  {[kind |-> "returns", text |-> "row"],
   [kind |-> "retryable", text |-> "connection lost"],
   [kind |-> "retryable", text |-> "deadlock detected"],
   [kind |-> "other", text |-> "division by zero"],
   [kind |-> "other", text |-> ""]}

NextRetry ==
  \/ \E max_retries \in 1..MaxRetries, error_msg \in {"", "Could not save"} :
       retry_wrapper_enter(max_retries, error_msg)
  \/ \E outcome \in FuncOutcomes : retry_wrapper_attempt(outcome)

SpecRetry == InitAccounts /\ [][NextRetry]_vars

\* The run has ended.
RetryEnded == resp.op = "retry_transaction" /\ resp.data.kind # "running"

\* The calls before the last one all raised retryable exceptions.
RetriedUntilLast(calls) ==
  \A i \in 1..(Len(calls) - 1) : calls[i].kind = "retryable"

\* The parts of C19 that do not depend on error_msg.
RetryCallsAndResult ==
  /\ resp.op = "retry_transaction" => Len(resp.data.calls) <= resp.args.max_retries
  /\ RetryEnded
     => LET calls == resp.data.calls
            last == calls[Len(calls)]
        IN /\ Len(calls) >= 1
           /\ RetriedUntilLast(calls)
           /\ last.kind = "returns"
              => resp.status = 200 /\ resp.data.result.value = last.text
           /\ last.kind = "other" => resp.status = 500
           /\ last.kind = "retryable"
              => resp.status = 500 /\ Len(calls) = resp.args.max_retries

(***************************************************************************)
(* C19.  A function wrapped by the retry decorator with limit N >= 1 is    *)
(* called at most N times; the wrapper returns the result of the first     *)
(* call that does not raise and calls no more; a call that raises a        *)
(* non-retryable exception ends the run at once with the generic failure;  *)
(* if all calls raise retryable exceptions there are exactly N calls and   *)
(* the failure says "failed after N attempts" with the text of the last    *)
(* error.                                                                  *)
(***************************************************************************)
C19_RetryAsStated ==
  /\ RetryCallsAndResult
  /\ RetryEnded /\ resp.data.calls[Len(resp.data.calls)].kind = "retryable"
     => resp.detail = "Transaction failed after " \o ToString(resp.args.max_retries)
                        \o " attempts: " \o resp.data.calls[Len(resp.data.calls)].text

\* C19, amended: the failure after N retryable errors says "failed after N
\* attempts" with the text of the last error when no error_msg was given to
\* the decorator, and says error_msg when one was given.
C19_RetryWithErrorMsg ==
  /\ RetryCallsAndResult
  /\ RetryEnded /\ resp.data.calls[Len(resp.data.calls)].kind = "retryable"
     => resp.detail =
          IF resp.args.error_msg = ""
          THEN "Transaction failed after " \o ToString(resp.args.max_retries)
                 \o " attempts: " \o resp.data.calls[Len(resp.data.calls)].text
          ELSE resp.args.error_msg

\* Three calls raised retryable errors, the last one another than the first,
\* under a limit of 3 and with no error_msg.
C19_Witness ==
  /\ RetryEnded
  /\ resp.args = [max_retries |-> 3, error_msg |-> ""]
  /\ Len(resp.data.calls) = 3
  /\ resp.data.calls[1].text = "connection lost"
  /\ resp.data.calls[3].text = "deadlock detected"
  /\ resp.detail = "Transaction failed after 3 attempts: deadlock detected"

(***************************************************************************)
(* app/database/transactions.py transaction.  A block run inside the       *)
(* helper adds rows to user_activities inside the savepoint; it completes, *)
(* or raises after `written` of its rows.                                  *)
(***************************************************************************)
\* The tables after a block that is not rolled back when it raises.
NotRolledBack(before, flushed) == flushed

\* transaction.rollback(); db.rollback(): the tables are those before the block
RolledBack(before, flushed) == before

BlockOutcomes ==
  {"completes", "IntegrityError: unique violation", "IntegrityError: foreign key violation",
   "IntegrityError", "SQLAlchemyError", "Exception", "SQLAlchemyError at commit"}

transaction(rows, outcome, written) ==
  LET args == [rows |-> rows, outcome |-> outcome, written |-> written]
      flushed == user_activities \o SubSeq(rows, 1, written)
      raised ==
        IF outcome = "IntegrityError: unique violation"
        THEN \* UniqueViolationError, which no handler of FastAPI knows
             HTTPException(500, "Record already exists", NoHeaders)
        ELSE IF outcome = "IntegrityError: foreign key violation"
        THEN HTTPException(500, "Referenced record does not exist", NoHeaders)
        ELSE IF outcome = "IntegrityError"
        THEN HTTPException(409, "Database integrity error", NoHeaders)
        ELSE IF outcome = "Exception"
        THEN HTTPException(500, "Internal server error during transaction", NoHeaders)
        ELSE HTTPException(500, "Database transaction failed", NoHeaders)
  IN /\ db_faults
     /\ UNCHANGED <<users, dishes, recipes, recipe_steps, recipe_ingredients, ingredients,
                    cooking_sessions, id_seq>>
     /\ UNCHANGED <<fileVars, envVars>>
     /\ IF outcome = "completes"
        THEN /\ written = Len(rows)
             /\ user_activities' = flushed
             /\ resp' = Answer("transaction", args, Success(200, NoData))
        ELSE /\ user_activities' = RolledBack(user_activities, flushed)
             /\ resp' = Answer("transaction", args, raised)

(***************************************************************************)
(* Writes of several rows with a database that may fail: an administrator  *)
(* who owns a dish with one recipe adds recipes, starts and updates        *)
(* cooking sessions, applies bulk actions and runs blocks in transaction.  *)
(***************************************************************************)
TwoActivities ==
  <<[user_id |-> 1, recipe_id |-> 1, activity_type |-> "view_recipe"],
    [user_id |-> 1, recipe_id |-> 1, activity_type |-> "favorite_recipe"]>>

InitAtomic ==
  /\ settings = DefaultSettings
  /\ now = 0
  /\ users = ThreeUsers
  /\ dishes = <<[name |-> Text_ab, category |-> "first", user_id |-> 1]>>
  /\ recipes = {SeedRecipe(1, 1)}
  /\ recipe_steps = {SeedStep(1, 1)}
  /\ recipe_ingredients = {}
  /\ ingredients = <<[name |-> Text_ab, type |-> "other"]>>
  /\ cooking_sessions = {}
  /\ user_activities = <<>>
  /\ id_seq = [recipes |-> 1, recipe_steps |-> 1, recipe_ingredients |-> 0,
               cooking_sessions |-> 0]
  /\ EmptyFiles
  /\ tokens = {LoginToken(1)}
  /\ db_faults = TRUE
  /\ cache_manager = NoCacheManager
  /\ in_flight = {}
  /\ resp = NoResponse

NextAtomic ==
  \/ \E t \in HeldTokens :
       /\ add_recipe(<<t>>, 1,
            [cook_time |-> 30, cook_method |-> Text_ab, servings |-> 2,
             steps |-> <<[description |-> Text_ab, duration |-> 5],
                         [description |-> Text_ab, duration |-> 10]>>,
             ingredients |-> <<1, 7>>])
       /\ id_seq'.recipes <= MaxWrites
  \/ \E t \in HeldTokens :
       /\ start_cooking_session(<<t>>, [recipe_id |-> 1, total_steps |-> 2])
       /\ Len(user_activities') <= MaxWrites
  \/ \E t \in HeldTokens, c \in cooking_sessions :
       /\ update_cooking_session(<<t>>, c.id,
            [current_step |-> 2, is_completed |-> TRUE, rating |-> 5])
       /\ Len(user_activities') <= MaxWrites
  \/ \E t \in HeldTokens, action \in {"deactivate", "premium_on"} :
       bulk_user_action(<<t>>, [user_ids |-> <<2, 3>>, action |-> action])
  \/ \E outcome \in BlockOutcomes, written \in 0..Len(TwoActivities) :
       /\ transaction(TwoActivities, outcome, written)
       /\ Len(user_activities') <= MaxWrites

SpecAtomic == InitAtomic /\ [][NextAtomic]_vars

\* The rows of all tables.
TableRows ==
  <<users, dishes, recipes, recipe_steps, recipe_ingredients, ingredients,
    cooking_sessions, user_activities>>

\* The step is a request that writes several rows, or a block in transaction.
MultiRowWrite(t) ==
  \/ resp'.op = "add_recipe" /\ add_recipe(<<t>>, resp'.args.dish_id, resp'.args.data)
  \/ resp'.op = "start_cooking_session" /\ start_cooking_session(<<t>>, resp'.args)
  \/ resp'.op = "update_cooking_session"
     /\ update_cooking_session(<<t>>, resp'.args.session_id, resp'.args.session_update)
  \/ resp'.op = "bulk_user_action" /\ bulk_user_action(<<t>>, resp'.args)
  \/ resp'.op = "transaction"
     /\ transaction(resp'.args.rows, resp'.args.outcome, resp'.args.written)

\* The step made every row change of the request.
AllApplied ==
  LET a == resp'.args
  IN IF resp'.op = "add_recipe"
     THEN \E r \in recipes' \ recipes :
            /\ recipes' = recipes \cup {r}
            /\ recipe_steps \subseteq recipe_steps'
            /\ recipe_ingredients \subseteq recipe_ingredients'
            /\ Cardinality({st \in recipe_steps' \ recipe_steps : st.recipe_id = r.id})
                 = Len(a.data.steps)
            /\ Cardinality({l \in recipe_ingredients' \ recipe_ingredients :
                              l.recipe_id = r.id})
                 = Cardinality({i \in DOMAIN a.data.ingredients :
                                  a.data.ingredients[i] \in DOMAIN ingredients})
     ELSE IF resp'.op = "start_cooking_session"
     THEN /\ Cardinality(cooking_sessions' \ cooking_sessions) = 1
          /\ cooking_sessions \subseteq cooking_sessions'
          /\ Len(user_activities') = Len(user_activities) + 1
          /\ user_activities'[Len(user_activities')].activity_type = "start_cooking"
     ELSE IF resp'.op = "update_cooking_session"
     THEN /\ \E c \in cooking_sessions' :
               /\ c.id = a.session_id
               /\ c.current_step = a.session_update.current_step
               /\ c.is_completed = a.session_update.is_completed
               /\ c.rating = a.session_update.rating
          /\ Len(user_activities') = Len(user_activities) + 2
     ELSE IF resp'.op = "bulk_user_action"
     THEN \A k \in DOMAIN a.user_ids :
            LET i == a.user_ids[k]
            IN /\ a.action = "deactivate" => ~users'[i].is_active
               /\ a.action = "premium_on" => users'[i].is_premium
     ELSE user_activities' = user_activities \o a.rows

(***************************************************************************)
(* C20.  For every request that writes more than one row (add recipe,      *)
(* start cooking session, update cooking session, bulk user action) and    *)
(* every block run inside the transaction helper, either all of its row    *)
(* changes are committed or none is, and one that ends in an error leaves  *)
(* the database exactly as it was before it started.                       *)
(***************************************************************************)
C20_ErrorLeavesNoChange ==
  [][\A t \in HeldTokens :
       MultiRowWrite(t)
       => /\ TableRows' = TableRows \/ AllApplied
          /\ resp'.status < 400 => AllApplied
          /\ resp'.status >= 400 => TableRows' = TableRows]_vars

\* C20, amended: all or none of the row changes are committed; a request that
\* succeeds has committed them all; one that ends in an error has committed
\* none, unless the error is raised by the refresh that add recipe, start
\* cooking session and update cooking session make after their commit: these
\* answer 500 with all their changes committed.
C20_AllOrNone ==
  [][\A t \in HeldTokens :
       MultiRowWrite(t)
       => /\ TableRows' = TableRows \/ AllApplied
          /\ resp'.status < 400 => AllApplied
          /\ resp'.status >= 400 /\ TableRows' # TableRows
             => /\ resp'.status = 500
                /\ resp'.op \in {"add_recipe", "start_cooking_session",
                                 "update_cooking_session"}]_vars

\* A block in transaction raised after its first row was written, and the
\* table holds neither of its rows.
C20_Witness ==
  /\ resp.op = "transaction"
  /\ resp.status = 409
  /\ resp.args.written = 1
  /\ user_activities = <<>>

\* Starting a cooking session was answered 500 and the session and its
\* start_cooking event are committed.
C20_WitnessCommitted ==
  /\ resp.op = "start_cooking_session"
  /\ resp.status = 500
  /\ Cardinality(cooking_sessions) = 1
  /\ Len(user_activities) = 1

\* The caller's recipe with this id, when it has a photo.
OwnedWithPhoto(t, recipe_id) ==
  {r \in OwnedRecipe(get_current_user(<<t>>).user_id, recipe_id) : r.photo_url # <<>>}

(***************************************************************************)
(* C21.  Whenever a recipe of the caller already has a photo, the          *)
(* operation that retires the photo succeeds: deleting the recipe removes  *)
(* the row with its steps and ingredient links, uploading a replacement    *)
(* sets photo_url to the new file, and in both cases a task that runs      *)
(* after the response deletes the old photo file.                          *)
(***************************************************************************)
C21_PhotoRetired ==
  [][\A t \in HeldTokens, r \in recipes :
       /\ (/\ resp'.op = "delete_recipe"
           /\ resp'.args.recipe_id = r.id
           /\ r \in OwnedWithPhoto(t, r.id)
           /\ delete_recipe(<<t>>, r.id))
          => /\ resp'.status = 200
             /\ \A other \in recipes' : other.id # r.id
             /\ \A st \in recipe_steps' : st.recipe_id # r.id
             /\ \A l \in recipe_ingredients' : l.recipe_id # r.id
             /\ CleanupTask(r.photo_url[1]) \in background_tasks'
       /\ (/\ resp'.op = "upload_photo"
           /\ resp'.args.recipe_id = r.id
           /\ r \in OwnedWithPhoto(t, r.id)
           /\ resp'.args.photo.ext \in ALLOWED_EXTENSIONS
           /\ resp'.args.photo.size <= get_user_limits(FALSE).max_photo_size
           /\ upload_photo(<<t>>, r.id, resp'.args.photo))
          => /\ resp'.status = 200
             /\ \E new \in recipes' :
                  new.id = r.id /\ new.photo_url = resp'.data.photo_url
                  /\ new.photo_url # r.photo_url
             /\ CleanupTask(r.photo_url[1]) \in background_tasks']_vars

\* Deleting recipe 1, which has a photo, was answered 500; the recipe, its
\* photo and the file are still there and no task is waiting.
C21_Witness ==
  /\ resp.op = "delete_recipe"
  /\ resp.status = 500
  /\ \E r \in recipes : r.id = 1 /\ r.photo_url # <<>> /\ r.photo_url[1] \in photo_files
  /\ background_tasks = {}

(***************************************************************************)
(* Updates of cooking sessions: session 1 belongs to user 2, session 2 to   *)
(* user 1, who holds the token; no session has the id 3.                   *)
(***************************************************************************)
OpenSession(id, user_id, recipe_id, total_steps) ==
  [id |-> id, user_id |-> user_id, recipe_id |-> recipe_id, is_completed |-> FALSE,
   current_step |-> 1, total_steps |-> total_steps, started_at |-> 0,
   completed_at |-> None, notes |-> None, rating |-> None]

LongNotes == [i \in 1..(NOTES_MAX_LENGTH + 1) |-> "a"]

SessionUpdateChoices ==
  {NoArgs, [current_step |-> 2], [is_completed |-> TRUE], [is_completed |-> FALSE],
   [notes |-> Text_ab], [rating |-> 5], [rating |-> 6], [notes |-> LongNotes],
   [current_step |-> 3, is_completed |-> TRUE, notes |-> Text_ab, rating |-> 4]}

SessionIds == 1..3

InitSessionUpdates ==
  /\ settings = DefaultSettings
  /\ now = 0
  /\ users = TwoUsers
  /\ dishes = <<[name |-> Text_ab, category |-> "first", user_id |-> 1],
                [name |-> Text_ab, category |-> "second", user_id |-> 2]>>
  /\ recipes = {SeedRecipe(1, 1), SeedRecipe(2, 2)}
  /\ recipe_steps = {SeedStep(1, 1), SeedStep(2, 2)}
  /\ recipe_ingredients = {}
  /\ ingredients = <<>>
  /\ cooking_sessions = {OpenSession(1, 2, 2, 3), OpenSession(2, 1, 1, 3)}
  /\ user_activities = <<>>
  /\ id_seq = [recipes |-> 2, recipe_steps |-> 2, recipe_ingredients |-> 0,
               cooking_sessions |-> 2]
  /\ EmptyFiles
  /\ tokens = {LoginToken(1)}
  /\ db_faults = FALSE
  /\ cache_manager = NoCacheManager
  /\ in_flight = {}
  /\ resp = NoResponse

\* A second passes.
Clock ==
  /\ now < MaxLoginTime
  /\ now' = now + 1
  /\ UNCHANGED <<dbVars, fileVars, settings, tokens, db_faults, cache_manager,
               in_flight, resp>>

NextSessionUpdates ==
  \/ \E t \in HeldTokens, id \in SessionIds, session_update \in SessionUpdateChoices :
       /\ update_cooking_session(<<t>>, id, session_update)
       /\ Len(user_activities') <= MaxSessionEvents
  \/ Clock

SpecSessionUpdates == InitSessionUpdates /\ [][NextSessionUpdates]_vars

\* The value of a field after a partial update: the supplied one, else the old.
Supplied(session_update, field, old) ==
  IF field \in DOMAIN session_update THEN session_update[field] ELSE old[field]

\* The number of events of a type in a list of activities.
EventCount(activities, activity_type) ==
  Cardinality({i \in DOMAIN activities : activities[i].activity_type = activity_type})

(***************************************************************************)
(* C22.  An update of a cooking session changes only the supplied fields,  *)
(* and only on a session of the caller: a session of somebody else or a    *)
(* missing one is answered NotFound and nothing changes.  An update that   *)
(* supplies current_step appends exactly one step_completed event, one     *)
(* with is_completed = true stamps completed_at and appends exactly one    *)
(* complete_cooking event, and one that supplies neither appends nothing.  *)
(***************************************************************************)
C22_PartialUpdate ==
  [][\A t \in HeldTokens :
       LET user == get_current_user(<<t>>).user_id
           id == resp'.args.session_id
           session_update == resp'.args.session_update
           owned == {c \in cooking_sessions : c.id = id /\ c.user_id = user}
           old == CHOOSE c \in owned : TRUE
           new == CHOOSE c \in cooking_sessions' : c.id = id
           steps == IF "current_step" \in DOMAIN session_update THEN 1 ELSE 0
           completes == "is_completed" \in DOMAIN session_update
                          /\ session_update.is_completed
           added == SubSeq(user_activities', Len(user_activities) + 1,
                           Len(user_activities'))
       IN resp'.op = "update_cooking_session"
          /\ update_cooking_session(<<t>>, id, session_update)
          /\ CookingSessionUpdateValid(session_update)
          => /\ owned = {} => resp' = Answer("update_cooking_session", resp'.args,
                                             SessionNotFound)
                              /\ UNCHANGED dbVars
             /\ owned # {}
                  => /\ resp'.status = 200
                     /\ cooking_sessions' \ {new} = cooking_sessions \ {old}
                     /\ \A field \in {"current_step", "is_completed", "notes", "rating"} :
                          new[field] = Supplied(session_update, field, old)
                     /\ \A field \in {"id", "user_id", "recipe_id", "total_steps",
                                      "started_at"} : new[field] = old[field]
                     /\ new.completed_at = IF completes THEN now ELSE old.completed_at
                     /\ user_activities' = user_activities \o added
                     /\ Len(added) = steps + (IF completes THEN 1 ELSE 0)
                     /\ EventCount(added, "step_completed") = steps
                     /\ EventCount(added, "complete_cooking") = IF completes THEN 1 ELSE 0
                     /\ \A i \in DOMAIN added :
                          added[i].user_id = user /\ added[i].recipe_id = old.recipe_id
                     /\ UNCHANGED <<users, dishes, recipes, recipe_steps,
                                    recipe_ingredients, ingredients>>]_vars

\* An update with current_step, is_completed = true, notes and rating was
\* applied to session 2 after the clock moved: both events were appended and
\* completed_at is the time of the update.
C22_Witness ==
  /\ resp.op = "update_cooking_session"
  /\ resp.status = 200
  /\ DOMAIN resp.args.session_update = {"current_step", "is_completed", "notes", "rating"}
  /\ now > 0
  /\ \E c \in cooking_sessions :
       c.id = 2 /\ c.current_step = 3 /\ c.completed_at = now /\ c.rating = 4
  /\ Len(user_activities) = 2
  /\ user_activities[2].activity_type = "complete_cooking"

\* An update of session 1, which belongs to user 2, was answered NotFound.
C22_WitnessNotOwned ==
  /\ resp.op = "update_cooking_session"
  /\ resp.args.session_id = 1
  /\ resp.status = 404
  /\ OpenSession(1, 2, 2, 3) \in cooking_sessions

(***************************************************************************)
(* Ingredients.                                                            *)
(***************************************************************************)
INGREDIENT_NAME_MIN_LENGTH == 2
INGREDIENT_NAME_MAX_LENGTH == 50

\* models/ingredient.py IngredientType, by member name
IngredientTypes == {"meat", "fish", "vegetable", "fruit", "dairy", "other"}

\* The SQL operator LIKE: % matches any run of characters, _ exactly one.
RECURSIVE Like(_, _)
Like(s, pattern) ==
  IF pattern = <<>> THEN s = <<>>
  ELSE IF Head(pattern) = "%"
  THEN Like(s, Tail(pattern)) \/ (s # <<>> /\ Like(Tail(s), pattern))
  ELSE IF s = <<>> THEN FALSE
  ELSE IF Head(pattern) = "_" THEN Like(Tail(s), Tail(pattern))
  ELSE Head(s) = Head(pattern) /\ Like(Tail(s), Tail(pattern))

\* Column.ilike(other): LIKE without regard to case
ILike(column, other) == Like(Lower(column), Lower(other))

\* POST /ingredients/
create_ingredient(bearer, data) ==
  LET auth == get_current_user(bearer)
      existing == {i \in DOMAIN ingredients : ILike(ingredients[i].name, data.name)}
      name == Strip(data.name)
      ing == [name |-> name, type |-> data.type]
      Raise(status, detail) ==
        /\ resp' = Answer("create_ingredient", data, HTTPException(status, detail, NoHeaders))
        /\ UNCHANGED <<dbVars, fileVars, envVars>>
  IN IF auth.status # 200
     THEN Reject("create_ingredient", data, auth)
     ELSE IF \/ Len(data.name) < INGREDIENT_NAME_MIN_LENGTH
             \/ Len(data.name) > INGREDIENT_NAME_MAX_LENGTH
             \/ data.type \notin IngredientTypes
     THEN Raise(422, "Validation error")
     ELSE IF existing # {}
     THEN Raise(400, "Ingredient already exists")
     \* validate_name raises ValueError for a blank name; the unique index on
     \* name, which compares exactly, raises IntegrityError at the commit
     ELSE IF name = <<>> \/ \E i \in DOMAIN ingredients : ingredients[i].name = name
     THEN Raise(500, "Error creating ingredient")
     ELSE /\ ingredients' = Append(ingredients, ing)
          /\ resp' = Answer("create_ingredient", data,
                            Success(200, [kind |-> "ingredient", name |-> name,
                                          type |-> data.type]))
          /\ UNCHANGED <<users, dishes, recipes, recipe_steps, recipe_ingredients,
                         cooking_sessions, user_activities, id_seq>>
          /\ UNCHANGED <<fileVars, envVars>>

\* What clients type into the name field.
IngredientNames ==
  {<<"a", "b">>, <<"A", "b">>, <<" ", "a", "b">>, <<" ", "A", "b">>, <<"a", "b", " ">>,
   <<"a", "_">>, <<"a", "%">>, <<"o", "x">>, <<" ", " ">>, <<"a">>}

InitIngredients ==
  /\ settings = DefaultSettings
  /\ now = 0
  /\ users = TwoUsers
  /\ EmptyTables
  /\ EmptyFiles
  /\ tokens = {LoginToken(1)}
  /\ db_faults = FALSE
  /\ cache_manager = NoCacheManager
  /\ in_flight = {}
  /\ resp = NoResponse

NextIngredients ==
  \E t \in HeldTokens, typed \in IngredientNames, type \in {"other", "sweet"} :
    /\ create_ingredient(<<t>>, [name |-> typed, type |-> type])
    /\ Len(ingredients') <= MaxIngredients

SpecIngredients == InitIngredients /\ [][NextIngredients]_vars

\* Equal ignoring case once surrounding whitespace is trimmed.
SameIngredientName(a, b) == Lower(Strip(a)) = Lower(Strip(b))

(***************************************************************************)
(* C23.  After any sequence of create-ingredient requests no two           *)
(* ingredients have names that are equal ignoring case once surrounding    *)
(* whitespace is trimmed.                                                  *)
(***************************************************************************)
C23_NoCaseDuplicates ==
  \A i, j \in DOMAIN ingredients :
    i # j => ~SameIngredientName(ingredients[i].name, ingredients[j].name)

\* The create of " Ab" was accepted while "ab" exists: the table holds the
\* names "ab" and "Ab".
C23_Witness ==
  /\ resp.op = "create_ingredient"
  /\ resp.status = 200
  /\ resp.args.name = <<" ", "A", "b">>
  /\ \E i, j \in DOMAIN ingredients :
       ingredients[i].name = <<"a", "b">> /\ ingredients[j].name = <<"A", "b">>

(***************************************************************************)
(* C24.  After a user has deactivated their own account, no request        *)
(* authenticated as that user sets the user's is_active back to TRUE.      *)
(* Under SpecAdmin every request is made by user 1, whose account becomes  *)
(* inactive by the user's own deactivate request only (C8).                *)
(***************************************************************************)
C24_DeactivationIsFinal ==
  [][\A t \in HeldTokens :
       LET auth == get_current_user(<<t>>)
       IN auth.status = 200 /\ ~users[auth.user_id].is_active
            => ~users'[auth.user_id].is_active]_vars

\* User 1 has just deactivated the account and the token is still accepted
\* as that of an administrator.
C24_Witness ==
  /\ resp.op = "deactivate_account"
  /\ resp.status = 200
  /\ ~users[1].is_active
  /\ \E t \in HeldTokens :
       LET auth == get_current_admin_user(<<t>>)
       IN auth.status = 200 /\ auth.user_id = 1

(***************************************************************************)
(* app/utils/tts_manager.py: the cache manager with a budget.  Sizes are   *)
(* counted in megabytes, times in seconds.                                 *)
(***************************************************************************)
SIZE_CHECK_INTERVAL == 300
DEFAULT_MAX_AGE_DAYS == 7

\* TTSCacheManager(cache_dir, max_size_mb, max_age_days) over a directory that
\* holds the files already
TTSCacheManager(files, max_size_mb, max_age_days) ==
  [kind |-> "TTSCacheManager", files |-> files, max_size |-> max_size_mb,
   max_age |-> max_age_days * SECONDS_PER_DAY, total_size |-> None, last_size_check |-> 0]

\* cache_dir / f"recipe_{recipe_id}_step_{step_number}.mp3"
get_cache_path(recipe_id, step_number) ==
  <<"r", "e", "c", "i", "p", "e", "_">> \o IntToStr(recipe_id)
    \o <<"_", "s", "t", "e", "p", "_">> \o IntToStr(step_number)
    \o <<".", "m", "p", "3">>

\* sum(f.stat().st_size for f in ...)
RECURSIVE SizeOf(_)
SizeOf(files) ==
  IF files = {} THEN 0
  ELSE LET f == CHOOSE f \in files : TRUE IN f.size + SizeOf(files \ {f})

\* The orders in which glob("*.mp3") may yield the files.
GlobOrders(files) ==
  {o \in [1..Cardinality(files) -> files] : \A i, j \in DOMAIN o : i # j => o[i] # o[j]}

\* The loop of cleanup from the i-th file of the listing on.
RECURSIVE CleanupLoop(_, _, _, _, _)
CleanupLoop(manager, listing, i, files, total_size) ==
  IF i > Len(listing) THEN [files |-> files, total_size |-> total_size]
  ELSE LET file == listing[i]
       IN IF now - file.mtime > manager.max_age
          THEN CleanupLoop(manager, listing, i + 1, files \ {file}, total_size)
          ELSE IF total_size + file.size > manager.max_size
          THEN CleanupLoop(manager, listing, i + 1, files \ {file}, total_size)
          ELSE CleanupLoop(manager, listing, i + 1, files, total_size + file.size)

\* cleanup(), the directory being listed in the given order
cleanup(manager, listing) ==
  LET swept == CleanupLoop(manager, listing, 1, manager.files, 0)
  IN [manager EXCEPT !.files = swept.files, !.total_size = swept.total_size,
                     !.last_size_check = now]

\* The manager after the size check of should_cleanup.
SizeChecked(manager) ==
  IF now - manager.last_size_check > SIZE_CHECK_INTERVAL
  THEN [manager EXCEPT !.total_size = SizeOf(manager.files), !.last_size_check = now]
  ELSE manager

\* return self._total_size and self._total_size > self.max_size * 0.9
should_cleanup(manager) ==
  LET total_size == SizeChecked(manager).total_size
  IN total_size # None /\ total_size # 0 /\ 10 * total_size > 9 * manager.max_size

\* store(recipe_id, step_number, audio_data): audio_data of the given size
store(recipe_id, step_number, size) ==
  LET args == [recipe_id |-> recipe_id, step_number |-> step_number, size |-> size]
      checked == SizeChecked(cache_manager)
      cache_path == get_cache_path(recipe_id, step_number)
      Write(manager) ==
        [manager EXCEPT !.files = {f \in @ : f.path # cache_path}
                                    \cup {[path |-> cache_path, size |-> size, mtime |-> now]}]
  IN /\ cache_manager # NoCacheManager
     /\ IF should_cleanup(cache_manager)
        THEN \E listing \in GlobOrders(checked.files) :
               cache_manager' = Write(cleanup(checked, listing))
        ELSE cache_manager' = Write(checked)
     /\ resp' = Answer("store", args, Success(200, NoData))
     /\ UNCHANGED <<dbVars, fileVars, settings, now, tokens, db_faults, in_flight>>

\* More than SIZE_CHECK_INTERVAL seconds pass.
SizeCheckIntervalPasses ==
  /\ now < (DEFAULT_MAX_AGE_DAYS * SECONDS_PER_DAY + 1)
             + MaxLoginTime * (SIZE_CHECK_INTERVAL + 1)
  /\ now' = now + SIZE_CHECK_INTERVAL + 1
  /\ UNCHANGED <<dbVars, fileVars, settings, tokens, db_faults, cache_manager,
                 in_flight, resp>>

\* The sizes of the audio stored: none is larger than the budget.
AudioSizes == {1, 2}

\* A manager with a budget of MaxCacheSizeMb is constructed over a directory
\* that is empty or holds one file older than max_age.
InitCacheManager ==
  /\ settings = DefaultSettings
  /\ now = DEFAULT_MAX_AGE_DAYS * SECONDS_PER_DAY + 1
  /\ users = TwoUsers
  /\ EmptyTables
  /\ EmptyFiles
  /\ tokens = {}
  /\ db_faults = FALSE
  /\ \E files \in {{}, {[path |-> get_cache_path(1, 1), size |-> 2, mtime |-> 0]}} :
       cache_manager = TTSCacheManager(files, MaxCacheSizeMb, DEFAULT_MAX_AGE_DAYS)
  /\ in_flight = {}
  /\ resp = NoResponse

NextCacheManager ==
  \/ \E step_number \in 1..MaxCacheSteps, size \in AudioSizes : store(1, step_number, size)
  \/ SizeCheckIntervalPasses

SpecCacheManager == InitCacheManager /\ [][NextCacheManager]_vars

(***************************************************************************)
(* C25.  Each time a store call of the manager returns, the total size of  *)
(* the .mp3 files in its cache directory is at most max_size.              *)
(***************************************************************************)
C25_WithinBudget ==
  resp.op = "store" => SizeOf(cache_manager.files) <= cache_manager.max_size

\* A store has returned after a size check made in the same call, and the
\* directory holds three files of 2 MB, none larger than the budget of 4 MB.
C25_Witness ==
  /\ resp.op = "store"
  /\ cache_manager.last_size_check = now
  /\ Cardinality(cache_manager.files) = 3
  /\ \A f \in cache_manager.files : f.size = 2 /\ f.size <= cache_manager.max_size
  /\ SizeOf(cache_manager.files) > cache_manager.max_size

(***************************************************************************)
(* Concurrent requests.  A handler is a coroutine that never awaits, so    *)
(* the event loop of one server process runs its body without a break;     *)
(* several server processes share the database, and between two statements *)
(* of one process the others run theirs.  A request in in_flight has made  *)
(* its count query and not yet its insert.                                 *)
(***************************************************************************)
Workers == 1..MaxWorkers

\* The event loop of the process is inside a handler.
Busy(worker) == \E r \in in_flight : r.worker = worker

\* create_dish up to count = db.query(Dish).filter(...).count()
create_dish_count(worker, bearer, data) ==
  LET auth == get_current_user(bearer)
  IN /\ ~Busy(worker)
     /\ auth.status = 200
     /\ in_flight' = in_flight \cup
          {[worker |-> worker, op |-> "create_dish", user |-> auth.user_id,
            is_premium |-> users[auth.user_id].is_premium, args |-> data,
            count |-> Cardinality(DishesOf(auth.user_id))]}
     /\ UNCHANGED <<dbVars, fileVars, settings, now, tokens, db_faults, cache_manager, resp>>

\* create_dish from the test of count to the commit
create_dish_commit(worker) ==
  \E r \in in_flight :
    LET limits == get_user_limits(r.is_premium)
        dish == [name |-> Strip(r.args.name), category |-> r.args.category,
                 user_id |-> r.user]
    IN /\ r.worker = worker
       /\ r.op = "create_dish"
       /\ in_flight' = in_flight \ {r}
       /\ UNCHANGED <<fileVars, settings, now, tokens, db_faults, cache_manager>>
       /\ IF r.count >= limits.max_dishes
          THEN /\ resp' = Answer("create_dish", r.args,
                     HTTPException(403, "Dish limit exceeded ("
                                          \o ToString(limits.max_dishes) \o ")", NoHeaders))
               /\ UNCHANGED dbVars
          ELSE IF IsBlank(r.args.name)
          THEN /\ resp' = Answer("create_dish", r.args,
                     HTTPException(500, "Error creating dish", NoHeaders))
               /\ UNCHANGED dbVars
          ELSE /\ dishes' = Append(dishes, dish)
               /\ resp' = Answer("create_dish", r.args,
                     Success(201, [kind |-> "dish", id |-> Len(dishes) + 1,
                                   name |-> dish.name, category |-> dish.category]))
               /\ UNCHANGED <<users, recipes, recipe_steps, recipe_ingredients, ingredients,
                              cooking_sessions, user_activities, id_seq>>

\* add_recipe up to count = db.query(Recipe).filter(...).count(), for a dish
\* of the caller
add_recipe_count(worker, bearer, dish_id, data) ==
  LET auth == get_current_user(bearer)
  IN /\ ~Busy(worker)
     /\ auth.status = 200
     /\ dish_id \in DishesOf(auth.user_id)
     /\ in_flight' = in_flight \cup
          {[worker |-> worker, op |-> "add_recipe", user |-> auth.user_id,
            is_premium |-> users[auth.user_id].is_premium,
            args |-> [dish_id |-> dish_id, data |-> data],
            count |-> Cardinality(RecipesOf(dish_id))]}
     /\ UNCHANGED <<dbVars, fileVars, settings, now, tokens, db_faults, cache_manager, resp>>

\* add_recipe from the test of count to the commit
add_recipe_commit(worker) ==
  \E r \in in_flight :
    LET limits == get_user_limits(r.is_premium)
        rows == NewRecipeRows(r.args.dish_id, r.args.data)
    IN /\ r.worker = worker
       /\ r.op = "add_recipe"
       /\ in_flight' = in_flight \ {r}
       /\ UNCHANGED <<fileVars, settings, now, tokens, db_faults, cache_manager>>
       /\ IF r.count >= limits.max_recipes_per_dish
          THEN /\ resp' = Answer("add_recipe", r.args,
                     HTTPException(403, "Recipe limit for dish exceeded ("
                                          \o ToString(limits.max_recipes_per_dish) \o ")",
                                   NoHeaders))
               /\ UNCHANGED dbVars
          ELSE IF IsBlank(r.args.data.cook_method)
          THEN /\ resp' = Answer("add_recipe", r.args,
                     HTTPException(500, "Error adding recipe", NoHeaders))
               /\ UNCHANGED dbVars
          ELSE /\ recipes' = recipes \cup {rows.recipe}
               /\ recipe_steps' = recipe_steps \cup rows.steps
               /\ recipe_ingredients' = recipe_ingredients \cup rows.links
               /\ id_seq' = [id_seq EXCEPT !.recipes = rows.recipe.id,
                                           !.recipe_steps = @ + Len(r.args.data.steps),
                                           !.recipe_ingredients = @ + Len(rows.found)]
               /\ resp' = Answer("add_recipe", r.args,
                     Success(201, [kind |-> "recipe", id |-> rows.recipe.id,
                                   steps |-> {st.id : st \in rows.steps}]))
               /\ UNCHANGED <<users, dishes, ingredients, cooking_sessions, user_activities>>

\* User 1, free or premium, owns dishes up to headroom below the tier's
\* maximum, and dish 1 holds recipes up to headroom below its maximum.
InitQuota ==
  /\ settings = DefaultSettings
  /\ now = 0
  /\ \E premium \in BOOLEAN, headroom \in 1..MaxWorkers :
       LET limits == get_user_limits(premium)
       IN /\ users = [TwoUsers EXCEPT ![1].is_premium = premium]
          /\ dishes = [i \in 1..(limits.max_dishes - headroom) |->
                         [name |-> Text_ab, category |-> "first", user_id |-> 1]]
          /\ recipes = {[SeedRecipe(i, 1) EXCEPT !.cook_method = Text_ab] :
                          i \in 1..(limits.max_recipes_per_dish - headroom)}
          /\ id_seq = [recipes |-> limits.max_recipes_per_dish - headroom,
                       recipe_steps |-> 0, recipe_ingredients |-> 0, cooking_sessions |-> 0]
  /\ recipe_steps = {}
  /\ recipe_ingredients = {}
  /\ ingredients = <<[name |-> Text_ab, type |-> "other"]>>
  /\ cooking_sessions = {}
  /\ user_activities = <<>>
  /\ EmptyFiles
  /\ tokens = {LoginToken(1)}
  /\ db_faults = FALSE
  /\ cache_manager = NoCacheManager
  /\ in_flight = {}
  /\ resp = NoResponse

QuotaRecipe ==
  [cook_time |-> 30, cook_method |-> Text_ab, servings |-> 2,
   steps |-> <<[description |-> Text_ab, duration |-> 5]>>, ingredients |-> <<1>>]

NextQuota ==
  \/ \E w \in Workers, t \in HeldTokens :
       create_dish_count(w, <<t>>, [name |-> Text_ab, category |-> "first"])
  \/ \E w \in Workers : create_dish_commit(w)
  \/ \E w \in Workers, t \in HeldTokens : add_recipe_count(w, <<t>>, 1, QuotaRecipe)
  \/ \E w \in Workers : add_recipe_commit(w)

SpecQuota == InitQuota /\ [][NextQuota]_vars

(***************************************************************************)
(* C26.  For a user whose tier does not change, after any interleaving of  *)
(* concurrent create-dish requests the user owns at most the tier's        *)
(* maximum of dishes, and after any interleaving of concurrent add-recipe  *)
(* requests a dish holds at most the tier's maximum of recipes per dish.   *)
(***************************************************************************)
C26_WithinTierLimits ==
  \A u \in DOMAIN users :
    LET limits == get_user_limits(users[u].is_premium)
    IN /\ Cardinality(DishesOf(u)) <= limits.max_dishes
       /\ \A d \in DishesOf(u) : Cardinality(RecipesOf(d)) <= limits.max_recipes_per_dish

\* Both requests counted 14 dishes of the free user and both were answered
\* 201: the user owns 16.
C26_Witness ==
  /\ ~users[1].is_premium
  /\ resp.op = "create_dish"
  /\ resp.status = 201
  /\ in_flight = {}
  /\ Cardinality(DishesOf(1)) = FREE_MAX_DISHES + 1

(***************************************************************************)
(* Synthesis in the executor.  get_step_audio awaits generate_tts_for_step,*)
(* which hands _generate_tts_sync to a thread of the default executor; the *)
(* event loop serves other requests until the thread is done.  The thread  *)
(* opens cache_path for writing and writes the audio into it piece by      *)
(* piece.  A synthesis that fails is taken to fail before it opens the     *)
(* file.                                                                   *)
(***************************************************************************)
\* cache_path.exists(): a whole file, or one a synthesis has opened
Exists(cache_path) ==
  \/ cache_path \in tts_files
  \/ \E r \in in_flight : r.op = "synthesis" /\ r.target = cache_path /\ r.opened

\* FileResponse(path=str(cache_path)): what is in the file when it is sent
FileResponse(cache_path) ==
  Success(200, [kind |-> "file", path |-> cache_path,
                written |-> IF cache_path \in tts_files THEN "whole" ELSE "part"])

\* GET /recipes/{recipe_id}/tts/step/{step_number} up to its response or, when
\* the file does not exist, up to the await of the executor thread
get_step_audio_request(worker, bearer, recipe_id, step_number) ==
  LET args == [recipe_id |-> recipe_id, step_number |-> step_number]
      auth == get_current_user(bearer)
      steps == StepsOf(recipe_id)
      cache_path ==
        get_tts_cache_path(steps[step_number].description, VoiceId(recipe_id, step_number))
  IN IF auth.status # 200
     THEN Reject("get_step_audio", args, auth)
     ELSE IF OwnedRecipe(auth.user_id, recipe_id) = {}
     THEN /\ resp' = Answer("get_step_audio", args, RecipeNotFound)
          /\ UNCHANGED <<dbVars, fileVars, envVars>>
     ELSE IF step_number < 1
     THEN /\ resp' = Answer("get_step_audio", args,
                HTTPException(500, "Error getting audio file", NoHeaders))
          /\ UNCHANGED <<dbVars, fileVars, envVars>>
     ELSE IF step_number > Len(steps)
     THEN /\ resp' = Answer("get_step_audio", args,
                HTTPException(404, "Step " \o ToString(step_number) \o " not found", NoHeaders))
          /\ UNCHANGED <<dbVars, fileVars, envVars>>
     ELSE IF Exists(cache_path)
     THEN /\ resp' = Answer("get_step_audio", args, FileResponse(cache_path))
          /\ UNCHANGED <<dbVars, fileVars, envVars>>
     ELSE /\ ~Busy(worker)
          /\ in_flight' = in_flight \cup
               {[worker |-> worker, op |-> "synthesis", target |-> cache_path,
                 opened |-> FALSE, args |-> args]}
          /\ UNCHANGED <<dbVars, fileVars, settings, now, tokens, db_faults,
                         cache_manager, resp>>

\* _generate_tts_sync: tts.save / engine.save_to_file opens the file
generate_tts_sync_opens(worker) ==
  \E r \in in_flight :
    /\ r.worker = worker /\ r.op = "synthesis" /\ ~r.opened
    /\ in_flight' = (in_flight \ {r}) \cup {[r EXCEPT !.opened = TRUE]}
    /\ UNCHANGED <<dbVars, fileVars, settings, now, tokens, db_faults, cache_manager, resp>>

\* _generate_tts_sync returns or raises, and the request that awaited it is
\* answered
generate_tts_sync_ends(worker, generated) ==
  \E r \in in_flight :
    /\ r.worker = worker /\ r.op = "synthesis"
    /\ generated = r.opened
    /\ in_flight' = in_flight \ {r}
    /\ tts_files' = IF generated THEN tts_files \cup {r.target} ELSE tts_files
    /\ resp' = Answer("get_step_audio", r.args,
                 IF generated
                 THEN Success(200, [kind |-> "file", path |-> r.target, written |-> "whole"])
                 ELSE HTTPException(500, "TTS generation error", NoHeaders))
    /\ UNCHANGED <<dbVars, photo_files, background_tasks, settings, now, tokens,
                   db_faults, cache_manager>>

NextSynthesis ==
  \/ \E w \in Workers, t \in HeldTokens, id \in TtsRecipeIds, n \in 1..2 :
       get_step_audio_request(w, <<t>>, id, n)
  \/ \E w \in Workers : generate_tts_sync_opens(w)
  \/ \E w \in Workers, generated \in BOOLEAN : generate_tts_sync_ends(w, generated)

SpecSynthesis == InitTts /\ [][NextSynthesis]_vars

(***************************************************************************)
(* C27.  A request for a step's audio never serves a cache file that a     *)
(* concurrent synthesis of the same step is still writing: a file is a     *)
(* cache hit only when its synthesis has finished.                         *)
(***************************************************************************)
C27_HitOnlyWhenFinished ==
  resp.op = "get_step_audio" /\ resp.status = 200 => resp.data.written = "whole"

\* The audio of a step was served while the synthesis the first request
\* started is still writing the file.
C27_Witness ==
  /\ resp.op = "get_step_audio"
  /\ resp.status = 200
  /\ resp.data.written = "part"
  /\ \E r \in in_flight :
       r.op = "synthesis" /\ r.opened /\ r.target = resp.data.path /\ r.args = resp.args
  /\ resp.data.path \notin tts_files

(***************************************************************************)
(* C28.  In every reachable state a cooking session has completed_at set   *)
(* if and only if its is_completed flag is true.                           *)
(***************************************************************************)
C28_CompletedAtIffCompleted ==
  \A c \in cooking_sessions : (c.completed_at # None) <=> c.is_completed

\* Session 2 was completed and then updated with is_completed = false: the
\* flag is false and completed_at still holds the time of the completion.
C28_Witness ==
  /\ resp.op = "update_cooking_session"
  /\ resp.status = 200
  /\ resp.args.session_id = 2
  /\ resp.args.session_update = [is_completed |-> FALSE]
  /\ \E c \in cooking_sessions : c.id = 2 /\ ~c.is_completed /\ c.completed_at # None

(***************************************************************************)
(* Sessions from their start: user 1 starts sessions on recipe 1 with the  *)
(* number of steps the client sends, and moves them.                       *)
(***************************************************************************)
TotalStepsChoices == {0, 2}

CurrentStepChoices == {0, 2, 3}

NextSessionSteps ==
  \/ \E t \in HeldTokens, recipe_id \in 1..2, total_steps \in TotalStepsChoices :
       /\ start_cooking_session(<<t>>, [recipe_id |-> recipe_id, total_steps |-> total_steps])
       /\ Len(user_activities') <= MaxSessionEvents + 1
  \/ \E t \in HeldTokens, id \in SessionIds, current_step \in CurrentStepChoices :
       /\ update_cooking_session(<<t>>, id, [current_step |-> current_step])
       /\ Len(user_activities') <= MaxSessionEvents + 1

SpecSessionSteps == InitRecipeOps /\ [][NextSessionSteps]_vars

(***************************************************************************)
(* C29.  In every reachable state every cooking session satisfies          *)
(* 1 <= current_step <= total_steps.                                       *)
(***************************************************************************)
C29_StepWithinTotal ==
  \A c \in cooking_sessions : 1 <= c.current_step /\ c.current_step <= c.total_steps

\* A session that was started with 2 steps was moved to step 3.
C29_Witness ==
  /\ resp.op = "update_cooking_session"
  /\ resp.status = 200
  /\ \E c \in cooking_sessions :
       c.id = resp.args.session_id /\ c.total_steps = 2 /\ c.current_step = 3

\* A session was started with 0 steps: its current_step is 1.
C29_WitnessAtStart ==
  /\ resp.op = "start_cooking_session"
  /\ resp.status = 200
  /\ \E c \in cooking_sessions :
       c.id = resp.data.id /\ c.total_steps = 0 /\ c.current_step = 1

(***************************************************************************)
(* app/routers/analytics.py: recommendations.  Scores are in hundredths.   *)
(* created_at of a recipe is the time of its insert and ids are given in   *)
(* the order of the inserts, so ORDER BY created_at DESC is taken as the   *)
(* order of descending id.  There are fewer than ten ingredients.          *)
(***************************************************************************)
CompletedSessionsOf(user) == {c \in cooking_sessions : c.user_id = user /\ c.is_completed}

\* The rows of recipe_ingredients that join to a recipe and to an ingredient.
JoinedLinks ==
  {l \in recipe_ingredients :
     l.ingredient_id \in DOMAIN ingredients /\ \E r \in recipes : r.id = l.recipe_id}

\* func.count(CookingSession.id) and func.count(Recipe.id) of an ingredient
IngredientCookingCount(user, ingredient_id) ==
  Cardinality({p \in CompletedSessionsOf(user) \X JoinedLinks :
                 p[1].recipe_id = p[2].recipe_id /\ p[2].ingredient_id = ingredient_id})

IngredientRecipeCount(user, ingredient_id) ==
  Cardinality({l \in JoinedLinks : l.ingredient_id = ingredient_id
                                     /\ l.recipe_id \in RecipeIdsOfUser(user)})

\* func.count(CookingSession.id) and func.count(Recipe.id) of a category
CategoryCookingCount(user, category) ==
  Cardinality({c \in CompletedSessionsOf(user) :
                 \E r \in recipes : r.id = c.recipe_id /\ dishes[r.dish_id].category = category})

CategoryRecipeCount(user, category) ==
  Cardinality({r \in recipes : dishes[r.dish_id].user_id = user
                                 /\ dishes[r.dish_id].category = category})

\* The orders in which a query ORDER BY count DESC can return the groups.
CountOrders(count) ==
  {order \in QueryOrders(DOMAIN count) :
     \A i, j \in DOMAIN order : i < j => count[order[i]] >= count[order[j]]}

\* sorted(..., key=lambda x: x[1], reverse=True) and
\* recommendations.sort(key=lambda x: x["score"], reverse=True): stable sorts
RECURSIVE InsertByScore(_, _)
InsertByScore(item, sorted) ==
  IF sorted = <<>> THEN <<item>>
  ELSE IF sorted[Len(sorted)].score >= item.score
  THEN Append(sorted, item)
  ELSE Append(InsertByScore(item, SubSeq(sorted, 1, Len(sorted) - 1)), sorted[Len(sorted)])

RECURSIVE SortedByScore(_)
SortedByScore(items) ==
  IF items = <<>> THEN <<>>
  ELSE InsertByScore(items[Len(items)], SortedByScore(SubSeq(items, 1, Len(items) - 1)))

\* The favourites: the keys in the order the two queries put them into the
\* dict, scored 2.0 per cooking and 1.0 per recipe, sorted by score.
Favorites(cooking_order, recipe_order, cooking_count, recipe_count) ==
  LET cooked == {cooking_order[i] : i \in DOMAIN cooking_order}
      keys == cooking_order \o SelectSeq(recipe_order, LAMBDA k : k \notin cooked)
      Score(k) == (IF k \in DOMAIN cooking_count THEN 2 * cooking_count[k] ELSE 0)
                    + (IF k \in DOMAIN recipe_count THEN recipe_count[k] ELSE 0)
  IN SortedByScore([i \in DOMAIN keys |-> [key |-> keys[i], score |-> Score(keys[i])]])

\* preference_strength * 0.3 with preference_strength = min(1.0, score / 5.0)
PreferencePart(score) == IF 6 * score < 30 THEN 6 * score ELSE 30

First(n, seq) == SubSeq(seq, 1, IF n < Len(seq) THEN n ELSE Len(seq))

\* for recipe in rows: continue on a duplicate, append, break at the limit
RECURSIVE RecipeLoop(_, _, _, _)
RecipeLoop(rows, i, recommendations, limit) ==
  IF i > Len(rows) THEN recommendations
  ELSE IF \E k \in DOMAIN recommendations : recommendations[k].recipe_id = rows[i].recipe_id
  THEN RecipeLoop(rows, i + 1, recommendations, limit)
  ELSE LET appended == Append(recommendations,
                              [id |-> Len(recommendations) + 1,
                               recipe_id |-> rows[i].recipe_id, score |-> rows[i].score,
                               reason |-> rows[i].reason])
       IN IF Len(appended) >= limit THEN appended
          ELSE RecipeLoop(rows, i + 1, appended, limit)

\* for data in favourites: the loop over its recipes, break at the limit
RECURSIVE FavoriteLoop(_, _, _, _)
FavoriteLoop(groups, g, recommendations, limit) ==
  IF g > Len(groups) THEN recommendations
  ELSE LET after == RecipeLoop(groups[g], 1, recommendations, limit)
       IN IF Len(after) >= limit THEN after
          ELSE FavoriteLoop(groups, g + 1, after, limit)

\* _get_ingredient_based_recommendations; recipe_orders[g] is the order in
\* which the query of the g-th favourite returns the user's recipes
IngredientBased(user, favorite_ingredients, limit, recipe_orders) ==
  LET top == First(5, favorite_ingredients)
      Total(id) == Cardinality({l \in recipe_ingredients : l.recipe_id = id})
      Matching(id) ==
        Cardinality({l \in recipe_ingredients :
                       /\ l.recipe_id = id
                       /\ \E f \in DOMAIN favorite_ingredients :
                            favorite_ingredients[f].key = l.ingredient_id})
      Rows(g) ==
        LET with == SelectSeq(recipe_orders[g], LAMBDA id :
                       \E l \in recipe_ingredients :
                         l.recipe_id = id /\ l.ingredient_id = top[g].key)
            found == First(3, with)
        IN [k \in DOMAIN found |->
              [recipe_id |-> found[k], reason |-> "ingredient",
               score |-> 60 + PreferencePart(top[g].score)
                           + Round2(Matching(found[k]), 10 * Total(found[k]))]]
  IN FavoriteLoop([g \in DOMAIN top |-> Rows(g)], 1, <<>>, limit)

\* The ids of the set, the largest first.
RECURSIVE Descending(_)
Descending(ids) ==
  IF ids = {} THEN <<>>
  ELSE LET last == CHOOSE i \in ids : \A o \in ids : i >= o
       IN <<last>> \o Descending(ids \ {last})

\* _get_category_based_recommendations
CategoryBased(user, favorite_categories, limit) ==
  LET top == First(3, favorite_categories)
      Rows(g) ==
        LET found == First(2, Descending({id \in RecipeIdsOfUser(user) :
                        \E r \in recipes :
                          r.id = id /\ dishes[r.dish_id].category = top[g].key}))
        IN [k \in DOMAIN found |->
              [recipe_id |-> found[k], reason |-> "category",
               score |-> 50 + PreferencePart(top[g].score)]]
  IN FavoriteLoop([g \in DOMAIN top |-> Rows(g)], 1, <<>>, limit)

\* _get_general_recommendations; LIMIT must not be negative
GeneralRecommendations(user, limit) ==
  LET recent == First(limit, Descending(RecipeIdsOfUser(user)))
  IN [k \in DOMAIN recent |->
        [id |-> k, recipe_id |-> recent[k], score |-> 40, reason |-> "general"]]

\* The list get_recommendations returns for the favourites and the orders.
Recommendations(user, limit, favorite_ingredients, favorite_categories, recipe_orders) ==
  LET ingredient_based ==
        IngredientBased(user, favorite_ingredients, limit \div 2, recipe_orders)
      with_categories ==
        IF Len(ingredient_based) < limit
        THEN ingredient_based
               \o CategoryBased(user, favorite_categories, limit - Len(ingredient_based))
        ELSE ingredient_based
      with_general ==
        IF Len(with_categories) < limit
        THEN with_categories \o GeneralRecommendations(user, limit - Len(with_categories))
        ELSE with_categories
  IN First(limit, SortedByScore(with_general))

\* GET /analytics/recommendations
get_recommendations(bearer, limit) ==
  LET args == [limit |-> limit]
      auth == get_current_user(bearer)
      user == auth.user_id
      categories == {dishes[d].category : d \in DOMAIN dishes}
      cooking_ingredients ==
        [i \in {x \in DOMAIN ingredients : IngredientCookingCount(user, x) > 0}
           |-> IngredientCookingCount(user, i)]
      recipe_ingredient_counts ==
        [i \in {x \in DOMAIN ingredients : IngredientRecipeCount(user, x) > 0}
           |-> IngredientRecipeCount(user, i)]
      cooking_categories ==
        [c \in {x \in categories : CategoryCookingCount(user, x) > 0}
           |-> CategoryCookingCount(user, c)]
      recipe_categories ==
        [c \in {x \in categories : CategoryRecipeCount(user, x) > 0}
           |-> CategoryRecipeCount(user, c)]
  IN IF auth.status # 200
     THEN Reject("get_recommendations", args, auth)
     ELSE IF limit < 1 \/ limit > MAX_RECOMMENDATIONS
     THEN /\ resp' = Answer("get_recommendations", args,
                            HTTPException(422, "Validation error", NoHeaders))
          /\ UNCHANGED <<dbVars, fileVars, envVars>>
     ELSE \E ci \in CountOrders(cooking_ingredients),
             ri \in CountOrders(recipe_ingredient_counts),
             cc \in CountOrders(cooking_categories),
             rc \in CountOrders(recipe_categories) :
          LET favorite_ingredients ==
                Favorites(ci, ri, cooking_ingredients, recipe_ingredient_counts)
              favorite_categories ==
                Favorites(cc, rc, cooking_categories, recipe_categories)
          IN \E recipe_orders \in [1..Len(First(5, favorite_ingredients))
                                     -> QueryOrders(RecipeIdsOfUser(user))] :
               /\ resp' = Answer("get_recommendations", args,
                    Success(200, [kind |-> "recommendations",
                                  items |-> Recommendations(user, limit, favorite_ingredients,
                                              favorite_categories, recipe_orders)]))
               /\ UNCHANGED <<dbVars, fileVars, envVars>>

RecommendationLimits == {0, 1, 2, 3, 10, MAX_RECOMMENDATIONS + 1}

\* User 1 asks for recommendations, starts cooking recipe 1 and completes
\* sessions.
NextRecommend ==
  \/ \E t \in HeldTokens, limit \in RecommendationLimits : get_recommendations(<<t>>, limit)
  \/ \E t \in HeldTokens :
       /\ start_cooking_session(<<t>>, [recipe_id |-> 1, total_steps |-> 1])
       /\ Len(user_activities') <= MaxSessionEvents
  \/ \E t \in HeldTokens, c \in cooking_sessions :
       /\ update_cooking_session(<<t>>, c.id, [is_completed |-> TRUE])
       /\ ~c.is_completed
       /\ Len(user_activities') <= MaxSessionEvents

SpecRecommend == InitSuggest /\ [][NextRecommend]_vars

(***************************************************************************)
(* C30.  The list the recommendation endpoint returns never contains the   *)
(* same recipe_id twice, whichever of the three tiers (ingredient-based,   *)
(* category-based, general) its entries come from.                         *)
(***************************************************************************)
C30_NoRecipeTwice ==
  resp.op = "get_recommendations" /\ resp.status = 200
    => \A i, j \in DOMAIN resp.data.items :
         i # j => resp.data.items[i].recipe_id # resp.data.items[j].recipe_id

\* The list holds one recipe three times: from its ingredient, from its
\* category and as a recent recipe.
C30_Witness ==
  /\ resp.op = "get_recommendations"
  /\ resp.status = 200
  /\ \E i, j, k \in DOMAIN resp.data.items :
       /\ resp.data.items[i].recipe_id = resp.data.items[j].recipe_id
       /\ resp.data.items[j].recipe_id = resp.data.items[k].recipe_id
       /\ resp.data.items[i].reason = "ingredient"
       /\ resp.data.items[j].reason = "category"
       /\ resp.data.items[k].reason = "general"

=============================================================================
